---- MODULE Spec2Model ----
(***************************************************************************)
(* Model of the cashstate backend's financial aggregation and resolution   *)
(* engine: budgets and month overrides, the spending aggregation, the      *)
(* budget summary, and goals with their account allocations.               *)
(*                                                                         *)
(* The state is the content of the database tables the handlers read and   *)
(* write.  Every handler is one action; `last` records the request that    *)
(* was served last and the response it produced.                           *)
(*                                                                         *)
(* Money is an integer number of mills (1/1000 of a currency unit).        *)
(* A timestamp is an integer number of half-months since 2026-01-01.       *)
(***************************************************************************)
EXTENDS Integers, Sequences, FiniteSets, TLC

VARIABLES
    budgets,            \* table budgets: rows [id, user_id, is_default]
    budget_months,      \* table budget_months: rows [id, user_id, month, budget_id]
    budget_line_items,  \* table budget_line_items: rows [id, budget_id, category_id, subcategory_id, amount]
    budget_accounts,    \* table budget_accounts: rows [budget_id, account_id]
    transactions,       \* table simplefin_transactions
    accounts,           \* table simplefin_accounts: account id -> [user_id, balance]
    goals,              \* table goals: rows [id, user_id, goal_type, target_amount]
    goal_accounts,      \* table goal_accounts: goal id -> its rows in insertion order
    net_snapshots,      \* table net_snapshots: rows [user_id, snapshot_date, total_balance]
    account_balance_history, \* table account_balance_history: rows [account_id, snapshot_date, balance]
    categorization_rules, \* table categorization_rules: the rows, most recently created first
    simplefin_items,    \* table simplefin_items: item id -> [user_id, account_id, last_synced_at (<<>> when null)]
    simplefin_sync_jobs, \* table simplefin_sync_jobs: rows [id, simplefin_item_id, status]
    in_flight,          \* default-setting writes between their two store calls
    last                \* the last request served and its response

vars == <<budgets, budget_months, budget_line_items, budget_accounts,
          transactions, accounts, goals, goal_accounts, net_snapshots,
          account_balance_history, categorization_rules, simplefin_items,
          simplefin_sync_jobs, in_flight, last>>

(***************************************************************************)
(* Bounds and input sets                                                   *)
(***************************************************************************)
MaxBudgets == 2
MaxMonths == 1
MaxLineItems == 2
MaxTxns == 2
MaxGoals == 2
MaxSnapshots == 5
MaxHistory == 2
MaxInFlight == 2
MaxJobs == 4
MaxClock == 2

Users == {"u1", "u2"}
AccountIds == {"a1", "a2", "a3"}
None == "none"
CategoryIds == {"c1", "c2"}
SubcategoryIds == {"s1"}

\* Requested months: <<year, month>>; month 13 stands for every malformed value.
MonthInputs == {<<2026, 11>>, <<2026, 12>>, <<2026, 13>>}

NoRequest == [op |-> "none", status |-> 0]

(***************************************************************************)
(* Helpers                                                                 *)
(***************************************************************************)
\* A fresh primary key for a table whose used keys are `used`.
FreshId(used, max) ==
    CHOOSE i \in 1..max : i \notin used /\ \A j \in 1..max : j \notin used => i <= j

HasFreshId(used, max) == \E i \in 1..max : i \notin used

Ids(rows) == {r.id : r \in rows}

\* date(int(year), int(month), 1) raises ValueError unless 1 <= month <= 12.
ValidMonth(ym) == ym[2] >= 1 /\ ym[2] <= 12

\* A date as <<year, month>> of its first day; the key stored in budget_months.
MonthDate(ym) == <<ym[1], ym[2]>>

\* First day of the following month.
EndDate(month_date) ==
    IF month_date[2] = 12 THEN <<month_date[1] + 1, 1>>
    ELSE <<month_date[1], month_date[2] + 1>>

\* int(datetime.combine(d, min.time()).timestamp()) in half-months since 2026-01-01.
Timestamp(d) == ((d[1] - 2026) * 12 + (d[2] - 1)) * 2

(***************************************************************************)
(* Database: budgets                                                       *)
(***************************************************************************)
\* Database.get_budget
Db_get_budget(budget_id) == {b \in budgets : b.id = budget_id}

\* Database.get_default_budget: the rows the query returns (data[0] is used).
Db_get_default_budget(user_id) ==
    {b \in budgets : b.user_id = user_id /\ b.is_default}

\* Database.get_budget_month: the rows the query returns (data[0] is used).
Db_get_budget_month(user_id, month) ==
    {m \in budget_months : m.user_id = user_id /\ m.month = month}

\* UPDATE budgets SET is_default = false WHERE user_id = ...
ClearDefaults(rows, user_id) ==
    {IF b.user_id = user_id THEN [b EXCEPT !.is_default = FALSE] ELSE b : b \in rows}

\* Variant of Database.create_budget that inserts without unsetting other defaults.
Db_create_budget_NoClear(rows, id, user_id, is_default) ==
    rows \cup {[id |-> id, user_id |-> user_id, is_default |-> is_default]}

\* Database.create_budget
Db_create_budget(rows, id, user_id, is_default) ==
    LET cleared == IF is_default THEN ClearDefaults(rows, user_id) ELSE rows
    IN  cleared \cup {[id |-> id, user_id |-> user_id, is_default |-> is_default]}

\* Database.update_budget; is_default is "unset", "true" or "false".
Db_update_budget(rows, budget_id, is_default) ==
    LET found == {b \in rows : b.id = budget_id}
        cleared == IF is_default = "true" /\ found # {}
                   THEN ClearDefaults(rows, (CHOOSE b \in found : TRUE).user_id)
                   ELSE rows
    IN  {IF b.id = budget_id /\ is_default # "unset"
         THEN [b EXCEPT !.is_default = (is_default = "true")] ELSE b : b \in cleared}

\* Database.add_budget_account: the insert raises when the account is already linked.
Db_add_budget_account(rows, budget_id, account_id) ==
    IF \E r \in rows : r.account_id = account_id THEN rows
    ELSE rows \cup {[budget_id |-> budget_id, account_id |-> account_id]}

RECURSIVE AddBudgetAccounts(_, _, _)
\* routers/budgets.create_budget: the loop over budget.account_ids
AddBudgetAccounts(rows, budget_id, account_ids) ==
    IF account_ids = <<>> THEN rows
    ELSE AddBudgetAccounts(Db_add_budget_account(rows, budget_id, Head(account_ids)),
                           budget_id, Tail(account_ids))

(***************************************************************************)
(* Database: spending aggregation                                          *)
(***************************************************************************)
Abs(x) == IF x < 0 THEN -x ELSE x

\* round(x, 2) on an amount in mills: to the nearest cent, ties to the even cent.
Round2(x) ==
    LET q == x \div 10
        r == x % 10
    IN  IF r < 5 THEN q * 10
        ELSE IF r > 5 THEN (q + 1) * 10
        ELSE IF q % 2 = 0 THEN q * 10 ELSE (q + 1) * 10

RECURSIVE SumFn(_)
\* sum(...) over the values of a finite map
SumFn(f) ==
    IF DOMAIN f = {} THEN 0
    ELSE LET k == CHOOSE x \in DOMAIN f : TRUE
         IN  f[k] + SumFn([x \in DOMAIN f \ {k} |-> f[x]])

\* An empty dict.
EmptyMap == [x \in {} |-> 0]

\* dict.get(key, 0) + amount stored back under key
Accumulate(map, key, amount) ==
    IF key \in DOMAIN map THEN [map EXCEPT ![key] = @ + amount]
    ELSE map @@ (key :> amount)

\* Variant of the query whose upper bound on transaction_date is inclusive.
SelectedTransactions_InclusiveEnd(rows, user_id, start_ts, end_ts, account_ids) ==
    {t \in rows :
        /\ t.user_id = user_id
        /\ t.amount < 0
        /\ t.transaction_date >= start_ts
        /\ t.transaction_date <= end_ts
        /\ (account_ids # {} => t.account_id \in account_ids)}

\* Database.get_spending_by_category: the rows the query selects.
SelectedTransactions(rows, user_id, start_ts, end_ts, account_ids) ==
    {t \in rows :
        /\ t.user_id = user_id
        /\ t.amount < 0
        /\ t.transaction_date >= start_ts
        /\ t.transaction_date < end_ts
        /\ (account_ids # {} => t.account_id \in account_ids)}

\* Variant of the loop body that files a transaction under its subcategory only
\* when it has no category.
AggregateStep_Elif(acc, txn) ==
    LET amount == Abs(txn.amount)
        cats == IF txn.category_id # None
                THEN Accumulate(acc.categories, txn.category_id, amount)
                ELSE acc.categories
        subs == IF txn.category_id = None /\ txn.subcategory_id # None
                THEN Accumulate(acc.subcategories, txn.subcategory_id, amount)
                ELSE acc.subcategories
    IN  [total |-> acc.total + amount, categories |-> cats, subcategories |-> subs]

\* Database.get_spending_by_category: one iteration of the aggregation loop.
AggregateStep(acc, txn) ==
    LET amount == Abs(txn.amount)
        cats == IF txn.category_id # None
                THEN Accumulate(acc.categories, txn.category_id, amount)
                ELSE acc.categories
        subs == IF txn.subcategory_id # None
                THEN Accumulate(acc.subcategories, txn.subcategory_id, amount)
                ELSE acc.subcategories
    IN  [total |-> acc.total + amount, categories |-> cats, subcategories |-> subs]

RECURSIVE AggregateLoop(_, _)
\* Database.get_spending_by_category: the aggregation loop over the selected rows.
AggregateLoop(acc, txns) ==
    IF txns = {} THEN acc
    ELSE LET t == CHOOSE x \in txns : TRUE
         IN  AggregateLoop(AggregateStep(acc, t), txns \ {t})

\* Database.get_spending_by_category
get_spending_by_category(rows, user_id, start_date, end_date, account_ids) ==
    AggregateLoop([total |-> 0, categories |-> EmptyMap, subcategories |-> EmptyMap],
                  SelectedTransactions(rows, user_id, Timestamp(start_date),
                                       Timestamp(end_date), account_ids))

(***************************************************************************)
(* BudgetService.get_budget_summary                                        *)
(***************************************************************************)
\* Variant of the resolution that looks for the default budget first.
ResolveBudget_DefaultFirst(user_id, month) ==
    LET overrides == Db_get_budget_month(user_id, month)
        defaults == Db_get_default_budget(user_id)
    IN  IF defaults # {}
        THEN {[found |-> TRUE, budget_id |-> d.id, has_override |-> FALSE] :
                 d \in defaults}
        ELSE IF overrides = {}
        THEN {[found |-> FALSE, budget_id |-> 0, has_override |-> FALSE]}
        ELSE {[found |-> TRUE, budget_id |-> m.budget_id, has_override |-> TRUE] :
                 m \in overrides}

\* Variant of the resolution that falls back to any budget of the user when no
\* override and no default exists.
ResolveBudget_AnyBudget(user_id, month) ==
    LET overrides == Db_get_budget_month(user_id, month)
        defaults == Db_get_default_budget(user_id)
        own == {b \in budgets : b.user_id = user_id}
    IN  IF overrides # {}
        THEN {[found |-> TRUE, budget_id |-> m.budget_id, has_override |-> TRUE] :
                 m \in overrides}
        ELSE IF defaults # {}
        THEN {[found |-> TRUE, budget_id |-> d.id, has_override |-> FALSE] :
                 d \in defaults}
        ELSE IF own # {}
        THEN {[found |-> TRUE, budget_id |-> b.id, has_override |-> FALSE] :
                 b \in own}
        ELSE {[found |-> FALSE, budget_id |-> 0, has_override |-> FALSE]}

\* The active budget for the month: the outcomes the two lookups can produce.
ResolveBudget(user_id, month) ==
    LET overrides == Db_get_budget_month(user_id, month)
        defaults == Db_get_default_budget(user_id)
    IN  IF overrides # {}
        THEN {[found |-> TRUE, budget_id |-> m.budget_id, has_override |-> TRUE] :
                 m \in overrides}
        ELSE IF defaults = {}
        THEN {[found |-> FALSE, budget_id |-> 0, has_override |-> FALSE]}
        ELSE {[found |-> TRUE, budget_id |-> d.id, has_override |-> FALSE] :
                 d \in defaults}

\* spending.get(key, 0.0)
Lookup(map, key) == IF key \in DOMAIN map THEN map[key] ELSE 0

\* One entry of summary_line_items.
SummaryLineItem(item, spending) ==
    LET spent == IF item.subcategory_id # None
                 THEN Lookup(spending.subcategories, item.subcategory_id)
                 ELSE Lookup(spending.categories, item.category_id)
    IN  [id |-> item.id, budget_id |-> item.budget_id,
         category_id |-> item.category_id, subcategory_id |-> item.subcategory_id,
         amount |-> item.amount, spent |-> Round2(spent),
         remaining |-> Round2(item.amount - spent)]

\* budgeted_category_ids: the categories of the category-level line items.
BudgetedCategoryIds(items) ==
    {i.category_id : i \in {j \in items : j.subcategory_id = None}}

\* unbudgeted_categories
UnbudgetedCategories(items, spending) ==
    {[category_id |-> c, spent |-> Round2(spending.categories[c])] :
        c \in {d \in DOMAIN spending.categories :
                 d \notin BudgetedCategoryIds(items) /\ spending.categories[d] > 0}}

\* The summary dict built from the line items and the spending result.
BuildSummary(budget_id, items, spending) ==
    LET lines == {SummaryLineItem(i, spending) : i \in items}
        unbudgeted == UnbudgetedCategories(items, spending)
        total_budgeted == SumFn([i \in Ids(lines) |->
                                   (CHOOSE l \in lines : l.id = i).amount])
        line_spent == SumFn([i \in Ids(lines) |->
                               (CHOOSE l \in lines : l.id = i).spent])
        unbudgeted_spent == SumFn([c \in {u.category_id : u \in unbudgeted} |->
                               (CHOOSE u \in unbudgeted : u.category_id = c).spent])
        total_spent == line_spent + unbudgeted_spent + spending.uncategorized
    IN  [budget_id |-> budget_id,
         total_budgeted |-> Round2(total_budgeted),
         total_spent |-> Round2(total_spent),
         line_items |-> lines,
         unbudgeted_categories |-> unbudgeted,
         uncategorized_spending |-> Round2(spending.uncategorized)]

\* The response of get_budget_summary once the lookups produced r.
SummaryResponse(user_id, ym, r) ==
    LET base == [op |-> "get_budget_summary", user |-> user_id, month |-> ym,
                 found |-> r.found, budget_id |-> r.budget_id,
                 has_override |-> r.has_override]
        budget == Db_get_budget(r.budget_id)
        items == {i \in budget_line_items : i.budget_id = r.budget_id}
        account_ids == {a.account_id : a \in {x \in budget_accounts :
                                                 x.budget_id = r.budget_id}}
        spending == get_spending_by_category(transactions, user_id, MonthDate(ym),
                                             EndDate(MonthDate(ym)), account_ids)
    IN  IF ~r.found THEN base @@ [status |-> 404, error |-> "NotFound"]
        ELSE IF budget = {} \/ (\E b \in budget : b.user_id # user_id)
        THEN base @@ [status |-> 404, error |-> "NotFound"]
        ELSE IF "uncategorized" \notin DOMAIN spending
        THEN base @@ [status |-> 500, error |-> "KeyError"]
        ELSE base @@ [status |-> 200, error |-> None,
                      summary |-> BuildSummary(r.budget_id, items, spending)]

(***************************************************************************)
(* Budget handlers (routers/budgets.py)                                    *)
(***************************************************************************)
BudgetIds == 1..MaxBudgets
MonthIds == 1..MaxMonths

BudgetTablesUnchanged ==
    UNCHANGED <<budgets, budget_months, budget_line_items, budget_accounts>>

\* POST /budgets
create_budget(user, is_default, account_ids) ==
    /\ HasFreshId(Ids(budgets), MaxBudgets)
    /\ LET id == FreshId(Ids(budgets), MaxBudgets)
       IN  /\ budgets' = Db_create_budget(budgets, id, user, is_default)
           /\ budget_accounts' = AddBudgetAccounts(budget_accounts, id, account_ids)
           /\ last' = [op |-> "create_budget", user |-> user, budget_id |-> id,
                       is_default |-> is_default, status |-> 201]
    /\ UNCHANGED <<budget_months, budget_line_items, transactions, accounts,
                   net_snapshots, account_balance_history, categorization_rules,
                                  simplefin_items, simplefin_sync_jobs, in_flight, goals,
                   goal_accounts>>

\* The ownership checks shared by the handlers that take a budget id.
BudgetAccess(user, budget_id) ==
    LET existing == Db_get_budget(budget_id)
    IN  IF existing = {} THEN 404
        ELSE IF \E b \in existing : b.user_id # user THEN 403
        ELSE 200

\* PATCH /budgets/{budget_id}; is_default is "unset", "true" or "false".
update_budget(user, budget_id, is_default) ==
    LET access == BudgetAccess(user, budget_id)
    IN  /\ budgets' = IF access = 200
                      THEN Db_update_budget(budgets, budget_id, is_default)
                      ELSE budgets
        /\ last' = [op |-> "update_budget", user |-> user, budget_id |-> budget_id,
                    update |-> is_default, status |-> access]
        /\ UNCHANGED <<budget_months, budget_line_items, budget_accounts,
                       transactions, accounts, net_snapshots,
                       account_balance_history, categorization_rules,
                       simplefin_items, simplefin_sync_jobs, in_flight, goals, goal_accounts>>

\* POST /budgets/{budget_id}/set-default
set_default_budget(user, budget_id) ==
    LET access == BudgetAccess(user, budget_id)
    IN  /\ budgets' = IF access = 200
                      THEN Db_update_budget(budgets, budget_id, "true")
                      ELSE budgets
        /\ last' = [op |-> "set_default_budget", user |-> user,
                    budget_id |-> budget_id, update |-> "true", status |-> access]
        /\ UNCHANGED <<budget_months, budget_line_items, budget_accounts,
                       transactions, accounts, net_snapshots,
                       account_balance_history, categorization_rules,
                       simplefin_items, simplefin_sync_jobs, in_flight, goals, goal_accounts>>

\* DELETE /budgets/{budget_id}: the delete cascades to line items, accounts, months.
delete_budget(user, budget_id) ==
    LET access == BudgetAccess(user, budget_id)
    IN  /\ IF access = 200
           THEN /\ budgets' = {b \in budgets : b.id # budget_id}
                /\ budget_months' = {m \in budget_months : m.budget_id # budget_id}
                /\ budget_line_items' =
                       {i \in budget_line_items : i.budget_id # budget_id}
                /\ budget_accounts' = {a \in budget_accounts : a.budget_id # budget_id}
           ELSE BudgetTablesUnchanged
        /\ last' = [op |-> "delete_budget", user |-> user, budget_id |-> budget_id,
                    status |-> access]
        /\ UNCHANGED <<transactions, accounts, net_snapshots,
                       account_balance_history, categorization_rules,
                       simplefin_items, simplefin_sync_jobs, in_flight, goals, goal_accounts>>

\* POST /budgets/months
assign_budget_month(user, budget_id, ym) ==
    LET access == BudgetAccess(user, budget_id)
        status == IF access # 200 THEN access
                  ELSE IF ~ValidMonth(ym) THEN 400 ELSE 201
    IN  /\ status = 201 => HasFreshId(Ids(budget_months), MaxMonths)
        /\ budget_months' =
               IF status = 201
               THEN budget_months \cup
                        {[id |-> FreshId(Ids(budget_months), MaxMonths),
                          user_id |-> user, month |-> MonthDate(ym),
                          budget_id |-> budget_id]}
               ELSE budget_months
        /\ last' = [op |-> "assign_budget_month", user |-> user,
                    budget_id |-> budget_id, month |-> ym, status |-> status]
        /\ UNCHANGED <<budgets, budget_line_items, budget_accounts,
                       transactions, accounts, net_snapshots,
                       account_balance_history, categorization_rules,
                       simplefin_items, simplefin_sync_jobs, in_flight, goals, goal_accounts>>

\* DELETE /budgets/months/{month_id}
delete_budget_month(user, month_id) ==
    LET month == {m \in budget_months : m.id = month_id}
        status == IF month = {} THEN 404
                  ELSE IF \E m \in month : m.user_id # user THEN 403
                  ELSE 200
    IN  /\ budget_months' = IF status = 200
                            THEN {m \in budget_months : m.id # month_id}
                            ELSE budget_months
        /\ last' = [op |-> "delete_budget_month", user |-> user,
                    month_id |-> month_id, removed |-> month, status |-> status]
        /\ UNCHANGED <<budgets, budget_line_items, budget_accounts,
                       transactions, accounts, net_snapshots,
                       account_balance_history, categorization_rules,
                       simplefin_items, simplefin_sync_jobs, in_flight, goals, goal_accounts>>

\* POST /budgets/{budget_id}/line-items; the store rejects a duplicate target.
create_line_item(user, budget_id, category_id, subcategory_id, amount) ==
    LET access == BudgetAccess(user, budget_id)
        duplicate == \E i \in budget_line_items :
                        /\ i.budget_id = budget_id
                        /\ i.category_id = category_id
                        /\ i.subcategory_id = subcategory_id
        status == IF access # 200 THEN access
                  ELSE IF duplicate THEN 409 ELSE 201
    IN  /\ status = 201 => HasFreshId(Ids(budget_line_items), MaxLineItems)
        /\ budget_line_items' =
               IF status = 201
               THEN budget_line_items \cup
                        {[id |-> FreshId(Ids(budget_line_items), MaxLineItems),
                          budget_id |-> budget_id, category_id |-> category_id,
                          subcategory_id |-> subcategory_id, amount |-> amount]}
               ELSE budget_line_items
        /\ last' = [op |-> "create_line_item", user |-> user,
                    budget_id |-> budget_id, status |-> status]
        /\ UNCHANGED <<budgets, budget_months, budget_accounts, transactions,
                       accounts, net_snapshots,
                       account_balance_history, categorization_rules,
                       simplefin_items, simplefin_sync_jobs, in_flight, goals, goal_accounts>>

\* GET /budgets/summary
get_budget_summary(user, ym) ==
    /\ IF ~ValidMonth(ym)
       THEN last' = [op |-> "get_budget_summary", user |-> user, month |-> ym,
                     found |-> FALSE, budget_id |-> 0, has_override |-> FALSE,
                     status |-> 400, error |-> "ValueError"]
       ELSE \E r \in ResolveBudget(user, MonthDate(ym)) :
                last' = SummaryResponse(user, ym, r)
    /\ BudgetTablesUnchanged
    /\ UNCHANGED <<transactions, accounts, net_snapshots,
                   account_balance_history, categorization_rules,
                   simplefin_items, simplefin_sync_jobs, in_flight, goals, goal_accounts>>

(***************************************************************************)
(* Transactions                                                            *)
(***************************************************************************)
TxnIds == 1..MaxTxns

\* Database.upsert_simplefin_transactions: a sync stores one new transaction.
upsert_simplefin_transaction(t) ==
    /\ HasFreshId(Ids(transactions), MaxTxns)
    /\ transactions' = transactions \cup
           {[id |-> FreshId(Ids(transactions), MaxTxns)] @@ t}
    /\ last' = [op |-> "upsert_simplefin_transaction", status |-> 200]
    /\ BudgetTablesUnchanged
    /\ UNCHANGED <<accounts, net_snapshots, account_balance_history, categorization_rules,
                   simplefin_items, simplefin_sync_jobs, in_flight, goals,
                   goal_accounts>>

\* A direct call of Database.get_spending_by_category.
spending_query(user, ym, account_ids) ==
    /\ last' = [op |-> "get_spending_by_category", user |-> user,
                start_date |-> MonthDate(ym), end_date |-> EndDate(MonthDate(ym)),
                account_ids |-> account_ids, status |-> 200,
                selected |-> Ids(SelectedTransactions(transactions, user,
                                Timestamp(MonthDate(ym)),
                                Timestamp(EndDate(MonthDate(ym))), account_ids)),
                result |-> get_spending_by_category(transactions, user, MonthDate(ym),
                              EndDate(MonthDate(ym)), account_ids)]
    /\ BudgetTablesUnchanged
    /\ UNCHANGED <<transactions, accounts, net_snapshots,
                   account_balance_history, categorization_rules,
                   simplefin_items, simplefin_sync_jobs, in_flight, goals, goal_accounts>>

(***************************************************************************)
(* Goals (routers/goals.py)                                                *)
(***************************************************************************)
GoalIds == 1..MaxGoals

\* GoalAccountCreate.validate_percentage
validate_percentage(v) == v > 0 /\ v <= 100

\* GoalCreate.validate_target / GoalUpdate.validate_target
validate_target(v) == v > 0

RECURSIVE SumSeq(_)
\* sum(...) over a list
SumSeq(s) == IF s = <<>> THEN 0 ELSE Head(s) + SumSeq(Tail(s))

\* The allocation_percentage column of the rows of one goal that name the account.
AllocationsOf(rows, account_id) ==
    LET matching == SelectSeq(rows, LAMBDA r : r.simplefin_account_id = account_id)
    IN  [i \in 1..Len(matching) |-> matching[i].allocation_percentage]

\* Database.get_account_total_allocation; exclude_goal_id = 0 stands for None.
get_account_total_allocation(ga, account_id, exclude_goal_id) ==
    SumFn([g \in {h \in DOMAIN ga : h # exclude_goal_id} |->
              SumSeq(AllocationsOf(ga[g], account_id))])

\* The goal_accounts row written for a savings goal.
SavingsRow(acc) ==
    [simplefin_account_id |-> acc.simplefin_account_id,
     allocation_percentage |-> acc.allocation_percentage,
     has_starting_balance |-> FALSE, starting_balance |-> 0]

\* The goal_accounts row written for a debt_payment goal.
DebtRow(acc, balance) ==
    [simplefin_account_id |-> acc.simplefin_account_id,
     allocation_percentage |-> 100,
     has_starting_balance |-> TRUE, starting_balance |-> balance]

\* Variant of the cap check that also rejects a total of exactly 100.
ExceedsAllocation_Inclusive(existing_alloc, allocation_percentage) ==
    existing_alloc + allocation_percentage >= 100

\* The allocation cap check of _validate_and_create_accounts.
ExceedsAllocation(existing_alloc, allocation_percentage) ==
    existing_alloc + allocation_percentage > 100

RECURSIVE validate_and_create_accounts(_, _, _, _, _, _, _)
\* _validate_and_create_accounts from the i-th entry of `reqs` on: the table after
\* the loop and the HTTPException raised, if any.
validate_and_create_accounts(ga, goal_id, user_id, goal_type, reqs, exclude_goal_id, i) ==
    IF i > Len(reqs)
    THEN [goal_accounts |-> ga, status |-> 200, detail |-> "ok", failed |-> 0]
    ELSE
      LET acc == reqs[i]
          a == acc.simplefin_account_id
          balance == accounts[a].balance
          existing_alloc == get_account_total_allocation(ga, a, exclude_goal_id)
          raise(status, detail) ==
              [goal_accounts |-> ga, status |-> status, detail |-> detail, failed |-> i]
      IN  IF a \notin DOMAIN accounts THEN raise(404, "account_not_found")
          ELSE IF accounts[a].user_id # user_id THEN raise(403, "account_not_authorized")
          ELSE IF goal_type = "savings" /\ balance < 0 THEN raise(422, "balance_sign")
          ELSE IF goal_type = "debt_payment" /\ balance > 0 THEN raise(422, "balance_sign")
          ELSE IF goal_type = "savings"
                  /\ ExceedsAllocation(existing_alloc, acc.allocation_percentage)
          THEN raise(422, "allocation")
          ELSE validate_and_create_accounts(
                   [ga EXCEPT ![goal_id] = Append(@,
                       IF goal_type = "savings" THEN SavingsRow(acc)
                       ELSE DebtRow(acc, balance))],
                   goal_id, user_id, goal_type, reqs, exclude_goal_id, i + 1)

GoalResponse(op, user, goal_id, goal_type, reqs, replaced, status, detail, failed) ==
    [op |-> op, user |-> user, goal_id |-> goal_id, goal_type |-> goal_type,
     accounts |-> reqs, replaced |-> replaced, status |-> status,
     detail |-> detail, failed |-> failed]

GoalFrame ==
    UNCHANGED <<budgets, budget_months, budget_line_items, budget_accounts,
                transactions>>

\* POST /goals
create_goal(user, goal_type, target_amount, reqs) ==
    /\ GoalFrame
    /\ UNCHANGED <<accounts, net_snapshots, account_balance_history, categorization_rules,
                   simplefin_items, simplefin_sync_jobs, in_flight>>
    /\ IF \/ ~validate_target(target_amount)
          \/ reqs = <<>>
          \/ \E i \in 1..Len(reqs) : ~validate_percentage(reqs[i].allocation_percentage)
       THEN /\ UNCHANGED <<goals, goal_accounts>>
            /\ last' = GoalResponse("create_goal", user, 0, goal_type, reqs, TRUE,
                                    422, "validation", 0)
       ELSE /\ HasFreshId(Ids(goals), MaxGoals)
            /\ LET id == FreshId(Ids(goals), MaxGoals)
                   goal == [id |-> id, user_id |-> user, goal_type |-> goal_type,
                            target_amount |-> target_amount]
                   res == validate_and_create_accounts(goal_accounts, id, user,
                                                       goal_type, reqs, 0, 1)
               IN  IF res.status = 200
                   THEN /\ goals' = goals \cup {goal}
                        /\ goal_accounts' = res.goal_accounts
                        /\ last' = GoalResponse("create_goal", user, id, goal_type,
                                                reqs, TRUE, 201, "ok", 0)
                   ELSE \* db.delete_goal rolls the goal back and cascades to its rows
                        /\ goals' = goals
                        /\ goal_accounts' = [res.goal_accounts EXCEPT ![id] = <<>>]
                        /\ last' = GoalResponse("create_goal", user, id, goal_type,
                                                reqs, TRUE, res.status, res.detail,
                                                res.failed)

\* PUT /goals/{goal_id}; has_target and has_accounts tell which fields are present.
update_goal(user, goal_id, has_target, target_amount, has_accounts, reqs) ==
    /\ GoalFrame
    /\ UNCHANGED <<accounts, net_snapshots, account_balance_history, categorization_rules,
                   simplefin_items, simplefin_sync_jobs, in_flight>>
    /\ LET found == {g \in goals : g.id = goal_id}
           goal == CHOOSE g \in found : TRUE
           respond(status, detail, failed) ==
               GoalResponse("update_goal", user, goal_id,
                            IF found = {} THEN None ELSE goal.goal_type,
                            reqs, has_accounts, status, detail, failed)
       IN  IF \/ has_target /\ ~validate_target(target_amount)
              \/ \E i \in 1..Len(reqs) :
                     ~validate_percentage(reqs[i].allocation_percentage)
           THEN /\ UNCHANGED <<goals, goal_accounts>>
                /\ last' = respond(422, "validation", 0)
           ELSE IF found = {}
           THEN /\ UNCHANGED <<goals, goal_accounts>>
                /\ last' = respond(404, "goal_not_found", 0)
           ELSE IF goal.user_id # user
           THEN /\ UNCHANGED <<goals, goal_accounts>>
                /\ last' = respond(403, "not_authorized", 0)
           ELSE
             LET res == IF has_accounts
                        THEN validate_and_create_accounts(
                                 [goal_accounts EXCEPT ![goal_id] = <<>>],
                                 goal_id, user, goal.goal_type, reqs, goal_id, 1)
                        ELSE [goal_accounts |-> goal_accounts, status |-> 200,
                              detail |-> "ok", failed |-> 0]
             IN  /\ goals' = IF has_target
                             THEN (goals \ found) \cup
                                      {[goal EXCEPT !.target_amount = target_amount]}
                             ELSE goals
                 /\ goal_accounts' = res.goal_accounts
                 /\ last' = respond(res.status, res.detail, res.failed)

\* DELETE /goals/{goal_id}: the delete cascades to goal_accounts.
delete_goal(user, goal_id) ==
    /\ GoalFrame
    /\ UNCHANGED <<accounts, net_snapshots, account_balance_history, categorization_rules,
                   simplefin_items, simplefin_sync_jobs, in_flight>>
    /\ LET found == {g \in goals : g.id = goal_id}
           status == IF found = {} THEN 404
                     ELSE IF \E g \in found : g.user_id # user THEN 403
                     ELSE 200
       IN  /\ goals' = IF status = 200 THEN goals \ found ELSE goals
           /\ goal_accounts' = IF status = 200
                               THEN [goal_accounts EXCEPT ![goal_id] = <<>>]
                               ELSE goal_accounts
           /\ last' = [op |-> "delete_goal", user |-> user, goal_id |-> goal_id,
                       status |-> status]

\* Dates are days since 2026-01-01. The snapshot dates explored:
\* 333 = 2026-11-30 (Mon), 360 = 2026-12-27 (Sun), 361 = 2026-12-28 (Mon),
\* 364 = 2026-12-31 (Thu), 365 = 2027-01-01 (Fri), 368 = 2027-01-04 (Mon).
SnapshotDates == {333, 360, 361, 364, 365, 368}

Granularities == {"day", "week", "month", "year"}

\* date.year and date.month
YearOf(d) == IF d < 365 THEN 2026 ELSE 2027
MonthOf(d) == IF d < 334 THEN 11 ELSE IF d < 365 THEN 12 ELSE 1

\* date.isocalendar()[:2]: 2026 has 53 ISO weeks and 2027-01-01 lies in the last.
IsoCalendar(d) ==
    IF d < 334 THEN <<2026, 49>>
    ELSE IF d < 361 THEN <<2026, 52>>
    ELSE IF d < 368 THEN <<2026, 53>>
    ELSE <<2027, 1>>

\* date(year, month, 1) and date(year, 1, 1)
FirstOfMonth(d) == IF d < 334 THEN 304 ELSE IF d < 365 THEN 334 ELSE 365
FirstOfYear(d) == IF d < 365 THEN 0 ELSE 365

Max(S) == CHOOSE x \in S : \A y \in S : y <= x
Min(S) == CHOOSE x \in S : \A y \in S : x <= y

\* The elements of a set of dates in ascending order (.order("snapshot_date")).
RECURSIVE SortedDates(_)
SortedDates(D) ==
    IF D = {} THEN <<>> ELSE <<Min(D)>> \o SortedDates(D \ {Min(D)})

\* round() of the quotient n / d for d > 0: to the nearest integer, ties to even.
RoundDiv(n, d) ==
    LET q == n \div d
        r == n % d
    IN  IF 2 * r < d THEN q
        ELSE IF 2 * r > d THEN q + 1
        ELSE IF q % 2 = 0 THEN q ELSE q + 1

\* Database.get_goal_accounts: the goal's rows joined with the accounts' balances.
get_goal_accounts(goal_id) ==
    [i \in 1..Len(goal_accounts[goal_id]) |->
        goal_accounts[goal_id][i] @@
        [current_balance |->
            accounts[goal_accounts[goal_id][i].simplefin_account_id].balance]]

\* _compute_progress, debt_payment: abs(starting_balance or current_balance)
\* - abs(current_balance); a starting_balance of None or 0 is falsy.
DebtTerm(ga) ==
    Abs(IF ga.has_starting_balance /\ ga.starting_balance # 0
        THEN ga.starting_balance ELSE ga.current_balance)
    - Abs(ga.current_balance)

\* Variant of the savings term that counts the whole balance of the account.
SavingsTerm_WholeBalance(ga) == ga.current_balance * 100

\* _compute_progress, savings: current_balance * (allocation_percentage / 100.0),
\* kept in hundredths of a mill so that the product is exact.
SavingsTerm(ga) == ga.current_balance * ga.allocation_percentage

\* Variant of the progress that is not clamped.
ProgressPercent_Unclamped(amount_x100, target) ==
    IF target <= 0 THEN 0
    ELSE (amount_x100 \div target) * 100
         + RoundDiv((amount_x100 % target) * 100, target)

\* max(0.0, min(current_amount / target * 100.0, 100.0)) rounded to 2 decimals,
\* in hundredths of a percent; 0 without dividing when target <= 0.
ProgressPercent(amount_x100, target) ==
    IF target <= 0 THEN 0
    ELSE IF amount_x100 <= 0 THEN 0
    ELSE IF amount_x100 >= 100 * target THEN 10000
    ELSE (amount_x100 \div target) * 100
         + RoundDiv((amount_x100 % target) * 100, target)

\* _compute_progress: (current_amount in mills rounded to cents, progress_percent
\* in hundredths of a percent).
compute_progress(goal, rows) ==
    LET amount_x100 ==
            IF goal.goal_type = "savings"
            THEN SumSeq([i \in 1..Len(rows) |-> SavingsTerm(rows[i])])
            ELSE 100 * SumSeq([i \in 1..Len(rows) |-> DebtTerm(rows[i])])
    IN  [current_amount |-> 10 * RoundDiv(amount_x100, 1000),
         progress_percent |-> ProgressPercent(amount_x100, goal.target_amount)]

\* allocation_map: account id -> allocation_percentage; of two rows naming the
\* same account the later one wins.
AllocationMap(rows) ==
    [a \in {rows[i].simplefin_account_id : i \in 1..Len(rows)} |->
        rows[Max({i \in 1..Len(rows) : rows[i].simplefin_account_id = a})]
            .allocation_percentage]

\* daily_totals: date -> the day's total over the linked accounts' history rows
\* of [start_date, end_date]; balance * allocation for a savings goal (in
\* hundredths of a mill), the plain balance for a debt_payment goal (in mills).
DailyTotals(rows, start_date, end_date, goal_type) ==
    LET alloc == AllocationMap(rows)
        hist == {h \in account_balance_history :
                    /\ h.account_id \in DOMAIN alloc
                    /\ h.snapshot_date >= start_date
                    /\ h.snapshot_date <= end_date}
    IN  [d \in {h.snapshot_date : h \in hist} |->
            SumFn([a \in {h.account_id : h \in {x \in hist : x.snapshot_date = d}} |->
                LET h == CHOOSE x \in hist : x.snapshot_date = d /\ x.account_id = a
                IN  IF goal_type = "debt_payment" THEN h.balance
                    ELSE h.balance * alloc[a]])]

\* period_key
PeriodKey(d, granularity) ==
    IF granularity = "week" THEN IsoCalendar(d)
    ELSE IF granularity = "month" THEN <<YearOf(d), MonthOf(d)>>
    ELSE IF granularity = "year" THEN <<YearOf(d)>>
    ELSE <<d>>

\* round(b, 2) of a daily total, in mills.
RoundTotal(total, goal_type) ==
    IF goal_type = "debt_payment" THEN Round2(total) ELSE 10 * RoundDiv(total, 1000)

\* Database.get_goal_snapshots
get_goal_snapshots(goal_id, start_date, end_date, granularity, goal_type) ==
    LET rows == get_goal_accounts(goal_id)
        daily_totals == DailyTotals(rows, start_date, end_date, goal_type)
        period_last == {Max({e \in DOMAIN daily_totals :
                                PeriodKey(e, granularity) = PeriodKey(d, granularity)})
                          : d \in DOMAIN daily_totals}
        dates == SortedDates(IF granularity = "day" THEN DOMAIN daily_totals
                             ELSE period_last)
    IN  IF rows = <<>> THEN <<>>
        ELSE [i \in 1..Len(dates) |->
                 [date |-> dates[i],
                  balance |-> RoundTotal(daily_totals[dates[i]], goal_type)]]

\* GET /goals/{goal_id} with start_date and end_date given.
get_goal(user, goal_id, start_date, end_date, granularity) ==
    /\ GoalFrame
    /\ UNCHANGED <<accounts, goals, goal_accounts, net_snapshots,
                   account_balance_history, categorization_rules,
                   simplefin_items, simplefin_sync_jobs, in_flight>>
    /\ LET found == {g \in goals : g.id = goal_id}
           goal == CHOOSE g \in found : TRUE
           request == [op |-> "get_goal", user |-> user, goal_id |-> goal_id,
                       start_date |-> start_date, end_date |-> end_date,
                       granularity |-> granularity]
       IN  last' = IF found = {} THEN request @@ [status |-> 404]
                   ELSE IF goal.user_id # user THEN request @@ [status |-> 403]
                   ELSE request
                        @@ [status |-> 200, goal_type |-> goal.goal_type,
                            progress_data |->
                                get_goal_snapshots(goal_id, start_date, end_date,
                                                   granularity, goal.goal_type)]
                        @@ compute_progress(goal, get_goal_accounts(goal_id))

\* Database.upsert_simplefin_accounts: a sync stores the account's new balance.
upsert_simplefin_account(account_id, balance) ==
    /\ GoalFrame
    /\ UNCHANGED <<goals, goal_accounts, net_snapshots, account_balance_history, categorization_rules,
                   simplefin_items, simplefin_sync_jobs, in_flight>>
    /\ accounts' = [accounts EXCEPT ![account_id].balance = balance]
    /\ last' = [op |-> "upsert_simplefin_account", account_id |-> account_id,
                status |-> 200]

\* POST /snapshots/store -> SnapshotService.store_daily_account_balances: stores
\* the current balance of each of the user's accounts for the date, replacing
\* the row of the same (account, date).
store_daily_account_balances(user_id, snapshot_date) ==
    /\ GoalFrame
    /\ UNCHANGED <<accounts, goals, goal_accounts, net_snapshots,
                   categorization_rules, simplefin_items, simplefin_sync_jobs,
                   in_flight>>
    /\ \/ \E h \in account_balance_history : h.snapshot_date = snapshot_date
       \/ Cardinality({h.snapshot_date : h \in account_balance_history}) < MaxHistory
    /\ account_balance_history' =
           {h \in account_balance_history :
               ~(/\ h.snapshot_date = snapshot_date
                 /\ accounts[h.account_id].user_id = user_id)}
           \cup {[account_id |-> a, snapshot_date |-> snapshot_date,
                  balance |-> accounts[a].balance]
                    : a \in {x \in AccountIds : accounts[x].user_id = user_id}}
    /\ last' = [op |-> "store_daily_account_balances", user |-> user_id,
                snapshot_date |-> snapshot_date, status |-> 200]

(***************************************************************************)
(* Specification of budgets, month overrides and budget resolution         *)
(***************************************************************************)
\* The active SimpleFin items, each with one account.
ItemIds == {"i1", "i2"}

ItemOwner == [i \in ItemIds |-> "u1"]

ItemAccount == [i \in ItemIds |-> IF i = "i1" THEN "a1" ELSE "a2"]

AccountOwner == [a \in AccountIds |-> IF a = "a3" THEN "u2" ELSE "u1"]

InitTables ==
    /\ budgets = {}
    /\ budget_months = {}
    /\ budget_line_items = {}
    /\ budget_accounts = {}
    /\ transactions = {}
    /\ accounts = [a \in AccountIds |-> [user_id |-> AccountOwner[a], balance |-> 0]]
    /\ goals = {}
    /\ goal_accounts = [g \in GoalIds |-> <<>>]
    /\ net_snapshots = {}
    /\ account_balance_history = {}
    /\ categorization_rules = <<>>
    /\ simplefin_items = [i \in ItemIds |-> [user_id |-> ItemOwner[i],
                                             account_id |-> ItemAccount[i],
                                             last_synced_at |-> <<>>]]
    /\ simplefin_sync_jobs = {}
    /\ in_flight = {}
    /\ last = NoRequest

Init == InitTables

\* The response of the request served last is returned to the caller.
send_response ==
    /\ last # NoRequest
    /\ last' = NoRequest
    /\ UNCHANGED <<budgets, budget_months, budget_line_items, budget_accounts,
                   transactions, accounts, net_snapshots,
                   account_balance_history, categorization_rules,
                   simplefin_items, simplefin_sync_jobs, in_flight, goals, goal_accounts>>

\* No request is being served.
Idle == last = NoRequest

Next ==
    \/ \E u \in Users, d \in BOOLEAN : Idle /\ create_budget(u, d, <<>>)
    \/ \E u \in Users, b \in BudgetIds, d \in {"unset", "true", "false"} :
           Idle /\ update_budget(u, b, d)
    \/ \E u \in Users, b \in BudgetIds : Idle /\ set_default_budget(u, b)
    \/ \E u \in Users, b \in BudgetIds : Idle /\ delete_budget(u, b)
    \/ \E u \in Users, b \in BudgetIds, ym \in MonthInputs :
           Idle /\ assign_budget_month(u, b, ym)
    \/ \E u \in Users, m \in MonthIds : Idle /\ delete_budget_month(u, m)
    \/ \E u \in Users, ym \in MonthInputs : Idle /\ get_budget_summary(u, ym)
    \/ send_response

Spec == Init /\ [][Next]_vars

(***************************************************************************)
(* Budget resolution and the default budget                                *)
(***************************************************************************)
OverridesOf(user, month) ==
    {m \in budget_months : m.user_id = user /\ m.month = month}

DefaultsOf(user) == {b \in budgets : b.user_id = user /\ b.is_default}

\* What a resolution of (user, month) must report in the current state.
ResolvesAsStored(user, month, found, budget_id, has_override) ==
    IF OverridesOf(user, month) # {}
    THEN /\ found
         /\ has_override
         /\ budget_id \in {m.budget_id : m \in OverridesOf(user, month)}
    ELSE IF DefaultsOf(user) # {}
    THEN /\ found
         /\ ~has_override
         /\ budget_id \in Ids(DefaultsOf(user))
    ELSE ~found

ResolutionFollowsOverride ==
    (last.op = "get_budget_summary" /\ last.status # 400) =>
        ResolvesAsStored(last.user, MonthDate(last.month), last.found,
                         last.budget_id, last.has_override)

\* Once an override row is deleted and no other row overrides its month, every
\* resolution of that month yields the default budget (or nothing without one).
DeletedOverrideRevertsToDefault ==
    (last'.op = "delete_budget_month" /\ last'.status = 200) =>
        \A m \in last'.removed :
            (\A o \in budget_months' : ~(o.user_id = m.user_id /\ o.month = m.month)) =>
                \A r \in ResolveBudget(m.user_id, m.month)' :
                    /\ ~r.has_override
                    /\ r.found <=> (DefaultsOf(m.user_id)' # {})
                    /\ r.found => r.budget_id \in Ids(DefaultsOf(m.user_id)')

AtMostOneDefault ==
    \A u \in Users : Cardinality(DefaultsOf(u)) <= 1

\* A successful write with is_default = true: the written budget is the only
\* default of its user and no budget of another user changes.
DefaultWriteClearsOwnUserOnly ==
    LET written == \/ last'.op = "create_budget" /\ last'.is_default
                   \/ /\ last'.op \in {"update_budget", "set_default_budget"}
                      /\ last'.status = 200
                      /\ last'.update = "true"
    IN  (last' # last /\ written) =>
            /\ \A b \in budgets' :
                   b.user_id = last'.user => (b.is_default <=> b.id = last'.budget_id)
            /\ \A b \in budgets : b.user_id # last'.user => b \in budgets'
            /\ \A b \in budgets' : b.user_id # last'.user => b \in budgets

\* C2: after any sequence of create, update, set-default and delete operations
\* every user has at most one default budget; a write with is_default = true
\* clears the flag on every other budget of the same user and of no other user.
Thm_C2 == []AtMostOneDefault /\ [][DefaultWriteClearsOwnUserOnly]_vars

\* set-default succeeded on one budget while the user owns another budget.
Witness_C2 ==
    /\ last.op = "set_default_budget"
    /\ last.status = 200
    /\ \E b \in budgets : b.user_id = last.user /\ b.id # last.budget_id
                          /\ ~b.is_default
    /\ \E b \in budgets : b.id = last.budget_id /\ b.is_default

(***************************************************************************)
(* Specification of goals and their account allocations                    *)
(***************************************************************************)
\* Target amounts in mills: 0 is rejected by the request validation.
TargetInputs == {0, 10000000}

\* The entries a request's accounts list is built from.
GoalAccountInputs ==
    {[simplefin_account_id |-> "a1", allocation_percentage |-> 50],
     [simplefin_account_id |-> "a1", allocation_percentage |-> 60],
     [simplefin_account_id |-> "a3", allocation_percentage |-> 50]}

\* Accounts lists of a request: up to two entries.
GoalAccountLists ==
    {<<>>} \cup {<<x>> : x \in GoalAccountInputs}
           \cup {<<x, y>> : x \in GoalAccountInputs, y \in GoalAccountInputs}

\* Balances in mills that a sync stores for account a1.
BalanceInputs == {-6500000, 0, 4000000}

\* The users who create goals; every user may try to change or delete one.
GoalUsers == {"u1"}

NextGoals ==
    \/ \E u \in GoalUsers, t \in {"savings", "debt_payment"}, ta \in TargetInputs,
          reqs \in GoalAccountLists : Idle /\ create_goal(u, t, ta, reqs)
    \/ \E u \in Users, g \in GoalIds, ht \in BOOLEAN, ta \in TargetInputs,
          ha \in BOOLEAN, reqs \in GoalAccountLists :
           /\ Idle
           /\ (ha \/ reqs = <<>>) /\ (ht \/ ta = 0)
           /\ update_goal(u, g, ht, ta, ha, reqs)
    \/ \E u \in Users, g \in GoalIds : Idle /\ delete_goal(u, g)
    \/ \E b \in BalanceInputs : Idle /\ upsert_simplefin_account("a1", b)
    \/ \E u \in Users, g \in GoalIds : Idle /\ get_goal(u, g, 360, 365, "day")
    \/ send_response

SpecGoals == Init /\ [][NextGoals]_vars

(***************************************************************************)
(* Allocation cap of savings goals                                         *)
(***************************************************************************)
\* Sum of allocation_percentage over the savings goal-accounts of an account.
SavingsAllocation(account_id) ==
    SumFn([g \in {x.id : x \in {y \in goals : y.goal_type = "savings"}} |->
              SumSeq(AllocationsOf(goal_accounts[g], account_id))])

\* C3: in every state reached by create_goal, update_goal and delete_goal, the
\* allocations of the savings goal-accounts of each account sum to at most 100.
CE_C3 == \A a \in AccountIds : SavingsAllocation(a) <= 100

\* The allocation counted as already stored for the account of the
\* i-th entry of the request answered by `resp`, in the table `ga` as it was
\* before the request: all rows of the account, without those of the goal being
\* edited by an update, plus the entries the same create request attached before.
StoredBefore(ga, resp, i) ==
    LET reqs == resp.accounts
        a == reqs[i].simplefin_account_id
        editing == resp.op = "update_goal"
        others == {g \in GoalIds : editing => g # resp.goal_id}
        earlier == {j \in 1..(i - 1) : reqs[j].simplefin_account_id = a}
    IN  SumFn([g \in others |-> SumSeq(AllocationsOf(ga[g], a))])
        + (IF editing THEN 0
           ELSE SumFn([j \in earlier |-> reqs[j].allocation_percentage]))

OverCap(ga, resp, i) ==
    StoredBefore(ga, resp, i) + resp.accounts[i].allocation_percentage > 100

\* A request that attaches accounts to a savings goal: every entry it accepted was
\* within the cap, the entry it rejected for its allocation was over the cap, and
\* the goal ends up with rows for the accepted entries only (none after the
\* roll-back of a rejected create).
SavingsAttachOutcome ==
    LET resp == last'
        attaching == /\ resp.op \in {"create_goal", "update_goal"}
                     /\ resp.replaced
                     /\ resp.goal_type = "savings"
                     /\ resp.detail \notin {"validation", "goal_not_found",
                                            "not_authorized"}
        accepted == IF resp.detail = "ok" THEN Len(resp.accounts)
                    ELSE resp.failed - 1
    IN  attaching =>
            /\ \A i \in 1..accepted : ~OverCap(goal_accounts, resp, i)
            /\ resp.detail = "allocation" <=>
                   (/\ resp.failed > 0
                    /\ accounts[resp.accounts[resp.failed].simplefin_account_id].user_id
                           = resp.user
                    /\ accounts[resp.accounts[resp.failed].simplefin_account_id].balance
                           >= 0
                    /\ OverCap(goal_accounts, resp, resp.failed))
            /\ Len(goal_accounts'[resp.goal_id]) =
                   IF resp.detail = "ok" THEN Len(resp.accounts)
                   ELSE IF resp.op = "update_goal" THEN accepted ELSE 0

Txn(user_id, account_id, amount, date, category_id, subcategory_id) ==
    [user_id |-> user_id, account_id |-> account_id, amount |-> amount,
     transaction_date |-> date, category_id |-> category_id,
     subcategory_id |-> subcategory_id]

\* Synced transactions that differ in owner, account, sign of the amount and
\* date: 21 lies in 2026-11, 22 is the start of 2026-12, 24 the start of 2027-01.
SelectionTxnInputs ==
    {Txn(AccountOwner[a], a, amt, d, "c1", None) :
        a \in AccountIds, amt \in {-75000, 0, 100000}, d \in {21, 22, 24}}

\* Synced expenses of one account and date that differ in their categorization.
BucketTxnInputs ==
    {Txn("u1", "a1", amt, 22, cs[1], cs[2]) :
        amt \in {-320000, -75000},
        cs \in {<<None, None>>, <<"c1", None>>, <<"c1", "s1">>, <<"c2", None>>,
                <<None, "s1">>}}

\* The account filters of the explored aggregation calls; {} means no filter.
AccountFilters == {{}, {"a1"}, {"a1", "a2"}}

NextSpending ==
    \/ \E t \in SelectionTxnInputs \cup BucketTxnInputs :
           Idle /\ upsert_simplefin_transaction(t)
    \/ \E u \in Users, ym \in {m \in MonthInputs : ValidMonth(m)},
          f \in AccountFilters : Idle /\ spending_query(u, ym, f)
    \/ send_response

SpecSpending == Init /\ [][NextSpending]_vars

TxnById(id) == CHOOSE t \in transactions : t.id = id

\* Sum of abs(amount) over the stored transactions with the given ids.
SpendOf(ids) == SumFn([i \in ids |-> Abs(TxnById(i).amount)])

\* The stored transactions of the user that are expenses posted in [start, end).
ExpensesInRange(user, start_date, end_date) ==
    {t \in transactions :
        /\ t.user_id = user
        /\ t.amount < 0
        /\ Timestamp(start_date) <= t.transaction_date
        /\ t.transaction_date < Timestamp(end_date)}

Thm_C10 ==
    last.op = "get_spending_by_category" =>
        LET sel == {TxnById(i) : i \in last.selected}
            cats == {t.category_id : t \in sel} \ {None}
            subs == {t.subcategory_id : t \in sel} \ {None}
        IN  /\ last.result.total = SpendOf(last.selected)
            /\ DOMAIN last.result.categories = cats
            /\ \A c \in cats : last.result.categories[c] =
                   SpendOf({t.id : t \in {x \in sel : x.category_id = c}})
            /\ DOMAIN last.result.subcategories = subs
            /\ \A sc \in subs : last.result.subcategories[sc] =
                   SpendOf({t.id : t \in {x \in sel : x.subcategory_id = sc}})
            /\ sel = {} => /\ last.result.total = 0
                           /\ last.result.categories = EmptyMap
                           /\ last.result.subcategories = EmptyMap

\* Two selected expenses of category c1, one of them also in subcategory s1: the
\* category entry holds both amounts, the subcategory entry one of them.
Witness_C10 ==
    /\ last.op = "get_spending_by_category"
    /\ Cardinality(last.selected) = 2
    /\ \E t \in transactions : t.id \in last.selected /\ t.category_id = "c1"
                              /\ t.subcategory_id = "s1"
    /\ \E t \in transactions : t.id \in last.selected /\ t.category_id = "c1"
                              /\ t.subcategory_id = None
    /\ last.result.total = last.result.categories["c1"]
    /\ last.result.subcategories["s1"] < last.result.total

(***************************************************************************)
(* Specification of the budget summary                                     *)
(***************************************************************************)
\* Expenses of 2026-12 on account a1: category c1, category c2, category c1 with
\* subcategory s1, and no category at all.
SummaryTxnInputs ==
    {Txn("u1", "a1", -320000, 22, "c1", None),
     Txn("u1", "a1", -75000, 22, "c2", None),
     Txn("u1", "a1", -25000, 22, "c1", "s1"),
     Txn("u1", "a1", -10000, 22, None, None)}

\* The user who owns the budgets of this specification; requests come from
\* every user.
SummaryOwners == {"u1"}

\* (category_id, subcategory_id, amount) of the line items created.
LineItemInputs == {<<"c1", None, 500000>>, <<"c1", "s1", 200000>>}

NextSummary ==
    \/ \E u \in SummaryOwners, d \in BOOLEAN, a \in {<<>>, <<"a1">>} :
           Idle /\ create_budget(u, d, a)
    \/ \E u \in Users, b \in BudgetIds, li \in LineItemInputs :
           Idle /\ create_line_item(u, b, li[1], li[2], li[3])
    \/ \E t \in SummaryTxnInputs : Idle /\ upsert_simplefin_transaction(t)
    \/ \E u \in Users, ym \in MonthInputs : Idle /\ get_budget_summary(u, ym)
    \/ \E u \in SummaryOwners : Idle /\ spending_query(u, <<2026, 12>>, {})
    \/ send_response

SpecSummary == Init /\ [][NextSummary]_vars

\* A summary request whose month parsed and for which a budget of the user resolved.
SummaryResolved ==
    /\ last.op = "get_budget_summary"
    /\ last.status \notin {400, 404}

\* The expenses the summary of the last request is about: those of the user posted
\* in the requested month, on the resolved budget's accounts when it has any.
SummaryExpenses ==
    LET linked == {a.account_id : a \in {x \in budget_accounts :
                                            x.budget_id = last.budget_id}}
    IN  {t \in ExpensesInRange(last.user, MonthDate(last.month),
                               EndDate(MonthDate(last.month))) :
            linked # {} => t.account_id \in linked}

CategorySpend(c) == SpendOf(Ids({t \in SummaryExpenses : t.category_id = c}))
SubcategorySpend(sc) == SpendOf(Ids({t \in SummaryExpenses : t.subcategory_id = sc}))
UncategorizedSpend ==
    SpendOf(Ids({t \in SummaryExpenses :
                    t.category_id = None /\ t.subcategory_id = None}))

ResolvedLineItems == {i \in budget_line_items : i.budget_id = last.budget_id}

\* C6 as stated: the summary of a resolved budget lists as unbudgeted exactly the
\* categories with positive spend that no category-level line item of the budget
\* targets, each with its spend.
CE_C6 ==
    SummaryResolved =>
        /\ last.status = 200
        /\ last.summary.unbudgeted_categories =
              {[category_id |-> c, spent |-> Round2(CategorySpend(c))] :
                  c \in {d \in CategoryIds :
                           /\ CategorySpend(d) > 0
                           /\ ~\E i \in ResolvedLineItems :
                                   i.category_id = d /\ i.subcategory_id = None}}

\* C7 as stated: the summary of a resolved budget reports total_budgeted as the
\* sum of the line-item amounts and total_spent as line-item spent plus
\* unbudgeted-category spent plus uncategorized spend.
CE_C7 ==
    SummaryResolved =>
        /\ last.status = 200
        /\ last.summary.total_budgeted =
              Round2(SumFn([i \in Ids(ResolvedLineItems) |->
                        (CHOOSE l \in ResolvedLineItems : l.id = i).amount]))
        /\ last.summary.total_spent =
              Round2(SumFn([i \in Ids(last.summary.line_items) |->
                        (CHOOSE l \in last.summary.line_items : l.id = i).spent])
                     + SumFn([c \in {u.category_id :
                                       u \in last.summary.unbudgeted_categories} |->
                        (CHOOSE u \in last.summary.unbudgeted_categories :
                            u.category_id = c).spent])
                     + UncategorizedSpend)

\* C8 as stated: the aggregation result has an uncategorized bucket holding the
\* spend of the selected expenses without any category, and the summary of every
\* resolved budget takes its uncategorized_spending from it.
CE_C8 ==
    /\ last.op = "get_spending_by_category" =>
          /\ "uncategorized" \in DOMAIN last.result
          /\ last.result.uncategorized =
                SpendOf({i \in last.selected :
                            /\ TxnById(i).category_id = None
                            /\ TxnById(i).subcategory_id = None})
    /\ SummaryResolved =>
          /\ last.status = 200
          /\ last.summary.uncategorized_spending = Round2(UncategorizedSpend)

\* C9 as stated: in the summary of a resolved budget each line item's spent is the
\* spend of its subcategory when it targets one and of its category otherwise
\* (0 if absent), and remaining = amount - spent.
CE_C9 ==
    SummaryResolved =>
        /\ last.status = 200
        /\ \A i \in ResolvedLineItems :
              LET spent == IF i.subcategory_id # None
                           THEN SubcategorySpend(i.subcategory_id)
                           ELSE CategorySpend(i.category_id)
              IN  \E l \in last.summary.line_items :
                      /\ l.id = i.id
                      /\ l.spent = Round2(spent)
                      /\ l.remaining = Round2(i.amount - spent)

\* C28 as stated: the summary of a resolved budget reports as total_spent the
\* 2-decimal rounding of the exact sum of the unrounded line-item, unbudgeted and
\* uncategorized spend.
CE_C28 ==
    SummaryResolved =>
        /\ last.status = 200
        /\ last.summary.total_spent =
              Round2(SumFn([i \in Ids(ResolvedLineItems) |->
                        LET l == CHOOSE x \in ResolvedLineItems : x.id = i
                        IN  IF l.subcategory_id # None
                            THEN SubcategorySpend(l.subcategory_id)
                            ELSE CategorySpend(l.category_id)])
                     + SumFn([c \in {d \in CategoryIds :
                                       /\ CategorySpend(d) > 0
                                       /\ ~\E i \in ResolvedLineItems :
                                               /\ i.category_id = d
                                               /\ i.subcategory_id = None} |->
                        CategorySpend(c)])
                     + UncategorizedSpend)

\* The line items of the resolved budget are all category-level and target
\* pairwise distinct categories.
DistinctCategoryLevelItems ==
    /\ \A i \in ResolvedLineItems : i.subcategory_id = None
    /\ \A i, j \in ResolvedLineItems : i.category_id = j.category_id => i.id = j.id

\* C29 as stated: for a resolved budget whose line items are all category-level
\* on pairwise distinct categories, the summary's total_spent is the total of the
\* selected expense transactions, each counted once.
CE_C29 ==
    (SummaryResolved /\ DistinctCategoryLevelItems) =>
        /\ last.status = 200
        /\ last.summary.total_spent = Round2(SpendOf(Ids(SummaryExpenses)))

(***************************************************************************)
(* Net-worth snapshots (services/snapshot_service.py)                      *)
(***************************************************************************)
\* The rows of the user in [start_date, end_date], in date order.
SnapshotRows(rows, user_id, start_date, end_date) ==
    LET sel == {r \in rows : /\ r.user_id = user_id
                             /\ r.snapshot_date >= start_date
                             /\ r.snapshot_date <= end_date}
        dates == SortedDates({r.snapshot_date : r \in sel})
    IN  [i \in 1..Len(dates) |-> CHOOSE r \in sel : r.snapshot_date = dates[i]]

\* The grouping key of a row.
GroupKey(d, granularity) ==
    IF granularity = "week" THEN IsoCalendar(d)
    ELSE IF granularity = "month" THEN <<YearOf(d), MonthOf(d)>>
    ELSE <<YearOf(d)>>

\* key_date; for a week it is datetime.strptime(..., "%G-W%W-%u"), which raises
\* ValueError because %G is only accepted together with %V.
KeyDateRaises(granularity) == granularity = "week"
KeyDate(d, granularity) ==
    IF granularity = "month" THEN FirstOfMonth(d) ELSE FirstOfYear(d)

\* The aggregation loop over the rows from index i on.
RECURSIVE AggregateSnapshots(_, _, _, _)
AggregateSnapshots(rows, granularity, i, aggregated) ==
    IF i > Len(rows) THEN aggregated
    ELSE LET row == rows[i]
             key == GroupKey(row.snapshot_date, granularity)
             entry == [date |-> KeyDate(row.snapshot_date, granularity),
                       balance |-> row.total_balance]
         IN  AggregateSnapshots(rows, granularity, i + 1,
                 IF key \in DOMAIN aggregated
                 THEN [aggregated EXCEPT ![key].balance = row.total_balance]
                 ELSE aggregated @@ (key :> entry))

\* sorted(aggregated.values(), key=lambda x: x["date"])
SortedByDate(points) ==
    LET dates == SortedDates({p.date : p \in points})
    IN  [i \in 1..Len(dates) |-> CHOOSE p \in points : p.date = dates[i]]

\* Variant of the day branch that returns the rows newest first.
DailyPoints_Descending(rows) ==
    [i \in 1..Len(rows) |->
        [date |-> rows[Len(rows) + 1 - i].snapshot_date,
         balance |-> rows[Len(rows) + 1 - i].total_balance]]

\* The day branch: one point per row, in the order of the query.
DailyPoints(rows) ==
    [i \in 1..Len(rows) |->
        [date |-> rows[i].snapshot_date, balance |-> rows[i].total_balance]]

\* SnapshotService.get_snapshots with both dates given: its outcome.
SnapshotsResult(user_id, start_date, end_date, granularity) ==
    LET rows == SnapshotRows(net_snapshots, user_id, start_date, end_date)
    IN  IF granularity = "day"
        THEN [status |-> 200, error |-> None, data |-> DailyPoints(rows)]
        ELSE IF KeyDateRaises(granularity) /\ Len(rows) > 0
        THEN [status |-> 500, error |-> "ValueError", data |-> <<>>]
        ELSE LET aggregated == AggregateSnapshots(rows, granularity, 1,
                                    [k \in {} |-> [date |-> 0, balance |-> 0]])
             IN  [status |-> 200, error |-> None,
                  data |-> SortedByDate({aggregated[k] : k \in DOMAIN aggregated})]

SnapshotFrame ==
    UNCHANGED <<budgets, budget_months, budget_line_items, budget_accounts,
                transactions, accounts, goals, goal_accounts>>

\* SnapshotService._calculate_snapshot_for_date: the upsert of the day's row.
upsert_net_snapshot(user_id, snapshot_date, total_balance) ==
    /\ \/ \E r \in net_snapshots : r.user_id = user_id
                                  /\ r.snapshot_date = snapshot_date
       \/ Cardinality(net_snapshots) < MaxSnapshots
    /\ net_snapshots' =
           {r \in net_snapshots : ~(r.user_id = user_id
                                    /\ r.snapshot_date = snapshot_date)}
           \cup {[user_id |-> user_id, snapshot_date |-> snapshot_date,
                  total_balance |-> total_balance]}
    /\ last' = [op |-> "upsert_net_snapshot", status |-> 200]
    /\ UNCHANGED <<account_balance_history, categorization_rules,
                   simplefin_items, simplefin_sync_jobs, in_flight>>
    /\ SnapshotFrame

\* GET /snapshots with start_date, end_date and granularity given.
get_snapshots(user, start_date, end_date, granularity) ==
    /\ last' = [op |-> "get_snapshots", user |-> user, start_date |-> start_date,
                end_date |-> end_date, granularity |-> granularity]
               @@ SnapshotsResult(user, start_date, end_date, granularity)
    /\ UNCHANGED <<net_snapshots, account_balance_history, categorization_rules,
                   simplefin_items, simplefin_sync_jobs, in_flight>>
    /\ SnapshotFrame

\* The sufficiency gate of the snapshot query: the distinct dates of the range
\* that have a snapshot against the (end - start).days + 1 expected ones.
\* coverage_pct is kept in tenths of a percent.
Sufficiency(user_id, start_date, end_date) ==
    LET dates == {r.snapshot_date :
                    r \in {x \in net_snapshots : /\ x.user_id = user_id
                                                 /\ x.snapshot_date >= start_date
                                                 /\ x.snapshot_date <= end_date}}
        expected_days == (end_date - start_date) + 1
    IN  [insufficient |-> Cardinality(dates) * 100 < 50 * expected_days,
         coverage_pct |-> (Cardinality(dates) * 1000) \div expected_days,
         has_dates |-> dates # {},
         min_date |-> IF dates = {} THEN 0 ELSE Min(dates),
         max_date |-> IF dates = {} THEN 0 ELSE Max(dates)]

\* GET /snapshots (routers/snapshots.py get_snapshots): the service call and the
\* translation of InsufficientDataError into the 422 detail.
snapshots_endpoint(user, start_date, end_date, granularity) ==
    /\ LET gate == Sufficiency(user, start_date, end_date)
           request == [op |-> "GET /snapshots", user |-> user,
                       start_date |-> start_date, end_date |-> end_date,
                       granularity |-> granularity]
       IN  last' = IF gate.insufficient
                   THEN request
                        @@ [status |-> 422, error |-> "INSUFFICIENT_DATA",
                            coverage_pct |-> gate.coverage_pct,
                            has_dates |-> gate.has_dates,
                            min_date |-> gate.min_date,
                            max_date |-> gate.max_date, data |-> <<>>]
                   ELSE request
                        @@ SnapshotsResult(user, start_date, end_date, granularity)
    /\ UNCHANGED <<net_snapshots, account_balance_history, categorization_rules,
                   simplefin_items, simplefin_sync_jobs, in_flight>>
    /\ SnapshotFrame

\* The balances of the stored snapshots, in mills.
SnapshotBalances == {1500000, 4000000}

\* The snapshots stored: any date and balance for u1, one day for u2.
SnapshotInputs ==
    ({"u1"} \X SnapshotDates \X SnapshotBalances) \cup {<<"u2", 364, 4000000>>}

\* The requested ranges [start_date, end_date].
SnapshotRanges == {<<333, 368>>, <<360, 369>>, <<364, 365>>}

NextSnapshots ==
    \/ \E i \in SnapshotInputs : Idle /\ upsert_net_snapshot(i[1], i[2], i[3])
    \/ \E u \in Users, r \in SnapshotRanges, g \in Granularities :
           Idle /\ get_snapshots(u, r[1], r[2], g)
    \/ \E u \in Users, r \in SnapshotRanges, g \in Granularities :
           Idle /\ snapshots_endpoint(u, r[1], r[2], g)
    \/ send_response

SpecSnapshots == Init /\ [][NextSnapshots]_vars

\* The stored snapshots the last request ranges over.
PresentRows ==
    {r \in net_snapshots : /\ r.user_id = last.user
                           /\ last.start_date <= r.snapshot_date
                           /\ r.snapshot_date <= last.end_date}

\* The latest present date of each period that has a present date.
LatestOfPeriods(granularity) ==
    {Max({q.snapshot_date : q \in {x \in PresentRows :
              GroupKey(x.snapshot_date, granularity) =
              GroupKey(r.snapshot_date, granularity)}}) : r \in PresentRows}

BalanceOn(d) == (CHOOSE r \in PresentRows : r.snapshot_date = d).total_balance

\* The roll-up emitted one point per period with a present date, in chronological
\* order, each with the balance of the latest present date of its period.
RollupIsPeriodLast ==
    LET latest == SortedDates(LatestOfPeriods(last.granularity))
    IN  /\ last.status = 200
        /\ Len(last.data) = Len(latest)
        /\ \A i \in 1..Len(latest) : last.data[i].balance = BalanceOn(latest[i])

\* C11 as stated: for granularity week, month or year the roll-up emits exactly
\* one point per period that contains a present date, carrying the balance of the
\* chronologically latest present date of the period.
CE_C11 ==
    (last.op = "get_snapshots" /\ last.granularity \in {"week", "month", "year"})
        => RollupIsPeriodLast

\* The series the last request is to return: the daily points of the range for
\* granularity day, the period-last points otherwise.
SeriesReturned ==
    IF last.granularity = "day"
    THEN LET dates == SortedDates({r.snapshot_date : r \in PresentRows})
         IN  /\ last.status = 200
             /\ last.data = [i \in 1..Len(dates) |->
                               [date |-> dates[i], balance |-> BalanceOn(dates[i])]]
    ELSE RollupIsPeriodLast

\* C12 as stated: coverage_pct is the number of distinct dates with a snapshot
\* over the days of the range; below 50 the query fails with InsufficientData
\* carrying coverage_pct and the min and max present dates and returns no data
\* points, and at 50 or more it returns the series.
CE_C12 ==
    last.op = "GET /snapshots" =>
        LET dates == {r.snapshot_date : r \in PresentRows}
            days == last.end_date - last.start_date + 1
        IN  IF Cardinality(dates) * 100 < 50 * days
            THEN /\ last.status = 422
                 /\ last.error = "INSUFFICIENT_DATA"
                 /\ last.coverage_pct * days <= Cardinality(dates) * 1000
                 /\ Cardinality(dates) * 1000 < (last.coverage_pct + 1) * days
                 /\ last.has_dates = (dates # {})
                 /\ dates # {} => /\ last.min_date = Min(dates)
                                  /\ last.max_date = Max(dates)
                 /\ last.data = <<>>
            ELSE SeriesReturned

\* The points of a series stored again as the snapshots of one user.
AsSnapshots(user_id, points) ==
    {[user_id |-> user_id, snapshot_date |-> points[i].date,
      total_balance |-> points[i].balance] : i \in 1..Len(points)}

\* C13: with granularity day the roll-up returns the stored daily series of the
\* range unchanged (same dates, chronological order, same balances), and rolling
\* its own output up by day again returns that output.
Thm_C13 ==
    (last.op = "get_snapshots" /\ last.granularity = "day") =>
        LET dates == SortedDates({r.snapshot_date : r \in PresentRows})
        IN  /\ last.status = 200
            /\ Len(last.data) = Cardinality(PresentRows)
            /\ \A i \in 1..Len(last.data) :
                  /\ last.data[i].date = dates[i]
                  /\ last.data[i].balance = BalanceOn(dates[i])
            /\ DailyPoints(SnapshotRows(AsSnapshots(last.user, last.data), last.user,
                                        last.start_date, last.end_date)) = last.data

\* A daily request over a range with gaps that returned three points of
\* different dates.
Witness_C13 ==
    /\ last.op = "get_snapshots"
    /\ last.granularity = "day"
    /\ Len(last.data) = 3
    /\ last.data[1].date = 360
    /\ last.data[2].date = 364
    /\ last.data[3].date = 365
    /\ last.data[1].balance # last.data[2].balance

(***************************************************************************)
(* Specification of the progress computation                               *)
(***************************************************************************)
\* Current balances in mills; 4000010 is 4000.01.
ProgressBalances == {-8000000, -6500000, 0, 4000000, 4000010}

\* The goal_accounts rows of a savings goal and of a debt_payment goal, joined
\* with a current balance.
SavingsProgressRows ==
    {SavingsRow([simplefin_account_id |-> "a1", allocation_percentage |-> p])
        @@ [current_balance |-> b] : p \in {50, 100}, b \in ProgressBalances}
DebtProgressRows ==
    {DebtRow([simplefin_account_id |-> "a1", allocation_percentage |-> 100], sb)
        @@ [current_balance |-> b] : sb \in {-8000000, 0}, b \in ProgressBalances}

\* Lists of up to two linked accounts.
RowLists(R) == {<<>>} \cup {<<x>> : x \in R} \cup {<<x, y>> : x \in R, y \in R}

ProgressTargets == {-5000000, 0, 3000000, 10000000}

\* One call of _compute_progress.
compute_progress_call(goal, rows) ==
    /\ last' = [op |-> "_compute_progress", goal |-> goal, rows |-> rows,
                status |-> 200] @@ compute_progress(goal, rows)
    /\ UNCHANGED <<budgets, budget_months, budget_line_items, budget_accounts,
                   transactions, accounts, goals, goal_accounts, net_snapshots,
                   account_balance_history, categorization_rules,
                   simplefin_items, simplefin_sync_jobs, in_flight>>

NextProgress ==
    \/ \E t \in ProgressTargets, rows \in RowLists(SavingsProgressRows) :
           Idle /\ compute_progress_call(
                       [id |-> 1, user_id |-> "u1", goal_type |-> "savings",
                        target_amount |-> t], rows)
    \/ \E t \in ProgressTargets, rows \in RowLists(DebtProgressRows) :
           Idle /\ compute_progress_call(
                       [id |-> 1, user_id |-> "u1", goal_type |-> "debt_payment",
                        target_amount |-> t], rows)
    \/ send_response

SpecProgress == Init /\ [][NextProgress]_vars

\* C14 as stated: for a debt-payoff goal current_amount is the sum over the linked
\* accounts of abs(starting_balance) - abs(current_balance), also for a
\* starting_balance of 0 and for a debt that has grown.
CE_C14 ==
    (last.op = "_compute_progress" /\ last.goal.goal_type = "debt_payment") =>
        last.current_amount =
            Round2(SumFn([i \in 1..Len(last.rows) |->
                Abs(last.rows[i].starting_balance) - Abs(last.rows[i].current_balance)]))

\* C15: for a savings goal current_amount is the sum over the linked accounts of
\* current_balance * allocation_percentage / 100, rounded to 2 decimals when it
\* is returned.
Thm_C15 ==
    (last.op = "_compute_progress" /\ last.goal.goal_type = "savings") =>
        LET sum_x100 == SumFn([i \in 1..Len(last.rows) |->
                last.rows[i].current_balance * last.rows[i].allocation_percentage])
        IN  \* the returned amount is the multiple of a cent nearest to the sum
            /\ last.current_amount % 10 = 0
            /\ 2 * Abs(100 * last.current_amount - sum_x100) <= 1000

\* Target 10000 and one account at 50% holding 4000: current_amount 2000 and
\* progress_percent 20.
Witness_C15 ==
    /\ last.op = "_compute_progress"
    /\ last.goal.goal_type = "savings"
    /\ last.goal.target_amount = 10000000
    /\ Len(last.rows) = 1
    /\ last.rows[1].current_balance = 4000000
    /\ last.rows[1].allocation_percentage = 50
    /\ last.current_amount = 2000000
    /\ last.progress_percent = 2000

\* The exact amount of the last call, in hundredths of a mill.
ExactAmountX100 ==
    IF last.goal.goal_type = "savings"
    THEN SumFn([i \in 1..Len(last.rows) |->
             last.rows[i].current_balance * last.rows[i].allocation_percentage])
    ELSE 100 * SumFn([i \in 1..Len(last.rows) |-> DebtTerm(last.rows[i])])

\* C16: progress_percent lies in [0, 100]; it is current_amount / target * 100
\* clamped to 0 below and 100 above (to 2 decimals), and 0 when target <= 0.
Thm_C16 ==
    last.op = "_compute_progress" =>
        LET target == last.goal.target_amount
            p == last.progress_percent
        IN  /\ p >= 0 /\ p <= 10000
            /\ target <= 0 => p = 0
            /\ target > 0 =>
                  /\ ExactAmountX100 <= 0 => p = 0
                  /\ ExactAmountX100 >= 100 * target => p = 10000
                  /\ (ExactAmountX100 > 0 /\ ExactAmountX100 < 100 * target) =>
                        \* p is the multiple of 0.01 nearest to the quotient
                        LET whole == ExactAmountX100 \div target
                            rest == ExactAmountX100 % target
                        IN  Abs((p - whole * 100) * target - rest * 100)
                                <= target \div 2

\* A call clamped above (4000 held against a target of 3000) gave 100.
Witness_C16 ==
    /\ last.op = "_compute_progress"
    /\ last.goal.goal_type = "savings"
    /\ last.goal.target_amount = 3000000
    /\ Len(last.rows) = 1
    /\ last.rows[1].current_balance = 4000000
    /\ last.rows[1].allocation_percentage = 100
    /\ last.progress_percent = 10000

(***************************************************************************)
(* Stored goals and their accounts                                         *)
(***************************************************************************)
\* The starting_balance stored for the account in the rows of a goal.
StartingBalances(rows, account_id) ==
    {rows[i].starting_balance :
        i \in {j \in 1..Len(rows) : /\ rows[j].simplefin_account_id = account_id
                                    /\ rows[j].has_starting_balance}}

\* C17 as stated: no operation changes the starting_balance stored for an account
\* of a debt-payoff goal once the account is attached: a goal that has the account
\* before and after a step has the same starting_balance for it.
CE_C17 ==
    [][\A g \in goals : \A a \in AccountIds :
          (/\ \E h \in goals' : h.id = g.id
           /\ StartingBalances(goal_accounts[g.id], a) # {}
           /\ StartingBalances(goal_accounts'[g.id], a) # {})
          => StartingBalances(goal_accounts'[g.id], a)
                 = StartingBalances(goal_accounts[g.id], a)]_vars

\* C18 as stated: every stored goal has at least one linked goal-account.
CE_C18 == \A g \in goals : goal_accounts[g.id] # <<>>

(***************************************************************************)
(* Specification of the progress series of a goal                          *)
(***************************************************************************)
\* Days of one ISO week (2026-W53) that spans a month and a year boundary.
HistoryDates == {361, 364, 365}

\* Balances in mills that a sync stores for account a1 before a daily store.
SeriesBalances == {-8000000, -6500000}

\* The goals created: a debt-payoff goal and a savings goal on account a1.
SeriesGoalInputs ==
    {<<"debt_payment", <<[simplefin_account_id |-> "a1",
                          allocation_percentage |-> 100]>> >>,
     <<"savings", <<[simplefin_account_id |-> "a1",
                     allocation_percentage |-> 50]>> >>}

NextGoalSeries ==
    \/ \E gi \in SeriesGoalInputs : Idle /\ create_goal("u1", gi[1], 10000000, gi[2])
    \/ \E b \in SeriesBalances : Idle /\ upsert_simplefin_account("a1", b)
    \/ \E d \in HistoryDates : Idle /\ store_daily_account_balances("u1", d)
    \/ \E g \in GoalIds, gr \in Granularities : Idle /\ get_goal("u1", g, 360, 368, gr)
    \/ send_response

SpecGoalSeries == Init /\ [][NextGoalSeries]_vars

\* The roll-up of one account's balance history over [start_date, end_date]:
\* period key -> the balance of the account's last stored date of the period.
AccountRollup(account_id, start_date, end_date, granularity) ==
    LET hist == {h \in account_balance_history :
                    /\ h.account_id = account_id
                    /\ h.snapshot_date >= start_date
                    /\ h.snapshot_date <= end_date}
    IN  [k \in {PeriodKey(h.snapshot_date, granularity) : h \in hist} |->
            (CHOOSE h \in hist :
                /\ PeriodKey(h.snapshot_date, granularity) = k
                /\ \A x \in hist : PeriodKey(x.snapshot_date, granularity) = k
                                      => x.snapshot_date <= h.snapshot_date).balance]

\* The point-in-time formula on the rolled-up balances of a period, in mills.
FormulaOfPeriod(rows, goal_type, k, start_date, end_date, granularity) ==
    LET roll(i) == AccountRollup(rows[i].simplefin_account_id, start_date,
                                 end_date, granularity)
        linked == {i \in 1..Len(rows) : k \in DOMAIN roll(i)}
    IN  IF goal_type = "savings"
        THEN 10 * RoundDiv(SumFn([i \in linked |->
                 roll(i)[k] * rows[i].allocation_percentage]), 1000)
        ELSE Round2(SumFn([i \in linked |->
                 Abs(rows[i].starting_balance) - Abs(roll(i)[k])]))

\* C19 as stated: the progress series of a goal has one point per period of the
\* linked accounts' roll-ups, and each point is the point-in-time formula applied
\* to the rolled-up balances of its period: the sum of balance * allocation / 100
\* for a savings goal, the sum of abs(starting_balance) - abs(balance) for a
\* debt-payoff goal.
CE_C19 ==
    (last.op = "get_goal" /\ last.status = 200) =>
        LET rows == get_goal_accounts(last.goal_id)
            keys == UNION {DOMAIN AccountRollup(rows[i].simplefin_account_id,
                               last.start_date, last.end_date, last.granularity)
                             : i \in 1..Len(rows)}
            data == last.progress_data
        IN  /\ Len(data) = Cardinality(keys)
            /\ \A i \in 1..Len(data) :
                  data[i].balance =
                      FormulaOfPeriod(rows, last.goal_type,
                          PeriodKey(data[i].date, last.granularity),
                          last.start_date, last.end_date, last.granularity)

\* The savings half of C19 alone.
SavingsSeriesIsFormula ==
    (last.op = "get_goal" /\ last.status = 200 /\ last.goal_type = "savings") =>
        LET rows == get_goal_accounts(last.goal_id)
            data == last.progress_data
        IN  \A i \in 1..Len(data) :
                data[i].balance =
                    FormulaOfPeriod(rows, last.goal_type,
                        PeriodKey(data[i].date, last.granularity),
                        last.start_date, last.end_date, last.granularity)

(***************************************************************************)
(* Rule application (services/categorization_service.py)                   *)
(***************************************************************************)
\* A text is a sequence of letters; str.lower() of a letter.
Lower(c) == IF c = "A" THEN "a" ELSE IF c = "B" THEN "b" ELSE c

\* str.lower()
lower(s) == [i \in 1..Len(s) |-> Lower(s[i])]

\* Python's "v in s" on strings.
Contains(s, v) ==
    \E k \in 0..(Len(s) - Len(v)) : SubSeq(s, k + 1, k + Len(v)) = v

\* txn.get(rule["match_field"], "") or "": a field of None reads as "".
FieldValue(txn, match_field) ==
    IF txn[match_field].is_none THEN <<>> ELSE txn[match_field].value

\* rule["match_value"].lower() in field_value.lower()
RuleMatches(txn, rule) ==
    Contains(lower(FieldValue(txn, rule.match_field)), lower(rule.match_value))

\* Variant of the inner loop without the break: the last matching rule stays.
RECURSIVE MatchedRule_NoBreak(_, _, _)
MatchedRule_NoBreak(txn, rules, i) ==
    IF i > Len(rules) THEN 0
    ELSE LET later == MatchedRule_NoBreak(txn, rules, i + 1)
         IN  IF later # 0 THEN later
             ELSE IF RuleMatches(txn, rules[i]) THEN i ELSE 0

\* The inner loop of _apply_rules from rule i on: the index of matched_rule,
\* 0 for None; the loop breaks at the first match.
RECURSIVE MatchedRule(_, _, _)
MatchedRule(txn, rules, i) ==
    IF i > Len(rules) THEN 0
    ELSE IF RuleMatches(txn, rules[i]) THEN i
    ELSE MatchedRule(txn, rules, i + 1)

\* Variant of _apply_rules without the else: a matched transaction is appended
\* to remaining as well.
RECURSIVE apply_rules_NoElse(_, _, _, _, _)
apply_rules_NoElse(txns, rules, j, rule_matched, remaining) ==
    IF j > Len(txns)
    THEN [rule_matched |-> rule_matched, remaining |-> remaining]
    ELSE LET txn == txns[j]
             matched_rule == MatchedRule(txn, rules, 1)
         IN  apply_rules_NoElse(txns, rules, j + 1,
                 IF matched_rule # 0
                 THEN Append(rule_matched, [transaction |-> txn,
                                            rule |-> rules[matched_rule]])
                 ELSE rule_matched,
                 Append(remaining, txn))

\* BaseCategorizationService._apply_rules from transaction j on.
RECURSIVE apply_rules(_, _, _, _, _)
apply_rules(txns, rules, j, rule_matched, remaining) ==
    IF j > Len(txns)
    THEN [rule_matched |-> rule_matched, remaining |-> remaining]
    ELSE LET txn == txns[j]
             matched_rule == MatchedRule(txn, rules, 1)
         IN  IF matched_rule # 0
             THEN apply_rules(txns, rules, j + 1,
                      Append(rule_matched, [transaction |-> txn,
                                            rule |-> rules[matched_rule]]),
                      remaining)
             ELSE apply_rules(txns, rules, j + 1, rule_matched,
                      Append(remaining, txn))

\* A call of _apply_rules.
apply_rules_call(txns, rules) ==
    /\ last' = [op |-> "_apply_rules", status |-> 200,
                transactions |-> txns, rules |-> rules]
               @@ apply_rules(txns, rules, 1, <<>>, <<>>)
    /\ BudgetTablesUnchanged
    /\ UNCHANGED <<transactions, accounts, net_snapshots,
                   account_balance_history, categorization_rules,
                   simplefin_items, simplefin_sync_jobs, in_flight, goals, goal_accounts>>

(***************************************************************************)
(* Specification of rule application                                       *)
(***************************************************************************)
MaxRules == 2

Text(s) == [is_none |-> FALSE, value |-> s]

NoText == [is_none |-> TRUE, value |-> <<>>]

\* Transactions: payee "bA" without memo, payee "A" with memo "ab", an empty
\* payee with memo "B".
RuleTxns ==
    {[id |-> 1, payee |-> Text(<<"b", "A">>), memo |-> NoText],
     [id |-> 2, payee |-> Text(<<"A">>), memo |-> Text(<<"a", "b">>)],
     [id |-> 3, payee |-> Text(<<>>), memo |-> Text(<<"B">>)]}

\* Lists of up to two distinct transactions.
RuleTxnLists ==
    {<<>>} \cup {<<t>> : t \in RuleTxns}
           \cup {p \in RuleTxns \X RuleTxns : p[1] # p[2]}

\* Rules: match_value is not empty (CategorizationRuleCreate, min_length 1).
RuleInputs ==
    [match_field : {"payee", "memo"},
     match_value : {<<"a">>, <<"B", "a">>, <<"b", "b">>},
     category_id : {"c1", "c2"}]

\* Rule lists in the supplied order, up to MaxRules rules.
RuleLists == UNION {[1..n -> RuleInputs] : n \in 0..MaxRules}

NextRules ==
    \/ \E ts \in RuleTxnLists, rs \in RuleLists : Idle /\ apply_rules_call(ts, rs)
    \/ send_response

SpecRules == Init /\ [][NextRules]_vars

\* Two letters are the same up to case.
SameLetter(x, y) ==
    \/ x = y
    \/ {x, y} = {"a", "A"}
    \/ {x, y} = {"b", "B"}

\* v is a case-insensitive substring of s.
SubstringIgnoringCase(v, s) ==
    \E k \in 0..(Len(s) - Len(v)) :
        \A n \in 1..Len(v) : SameLetter(v[n], s[k + n])

\* The rules of the list, by position, whose match_value is a case-insensitive
\* substring of the transaction field named by match_field.
MatchingRules(txn, rules) ==
    {i \in 1..Len(rules) :
        SubstringIgnoringCase(rules[i].match_value,
            IF txn[rules[i].match_field].is_none THEN <<>>
            ELSE txn[rules[i].match_field].value)}

\* The category rule application gives the transaction under a rule list, "none"
\* when the transaction is left for the later steps.
AssignedCategory(txn, rules) ==
    LET out == apply_rules(<<txn>>, rules, 1, <<>>, <<>>)
    IN  IF out.rule_matched = <<>> THEN "none"
        ELSE out.rule_matched[1].rule.category_id

\* Every transaction with a matching rule is assigned to the first matching rule
\* of the supplied order, in the order of the transactions; the others are
\* remaining, in order.
FirstMatchWins ==
    LET ts == last.transactions
        hit == {j \in 1..Len(ts) : MatchingRules(ts[j], last.rules) # {}}
        Nth(S, n) == CHOOSE j \in S : Cardinality({x \in S : x < j}) = n - 1
    IN  /\ Len(last.rule_matched) = Cardinality(hit)
        /\ \A n \in 1..Len(last.rule_matched) :
              /\ last.rule_matched[n].transaction = ts[Nth(hit, n)]
              /\ last.rule_matched[n].rule =
                     last.rules[Min(MatchingRules(ts[Nth(hit, n)], last.rules))]
        /\ Len(last.remaining) = Len(ts) - Cardinality(hit)
        /\ \A n \in 1..Len(last.remaining) :
              last.remaining[n] = ts[Nth((1..Len(ts)) \ hit, n)]

\* The list of two rules in the opposite order.
Swapped(rules) == <<rules[2], rules[1]>>

\* C20 as stated: rule application assigns each transaction to the first rule of
\* the supplied order whose match_value is a case-insensitive substring of the
\* field named by match_field, and a transaction that two rules match is
\* categorized differently when the two rules are supplied in the opposite order.
CE_C20 ==
    last.op = "_apply_rules" =>
        /\ FirstMatchWins
        /\ \A j \in 1..Len(last.transactions) :
              (/\ Len(last.rules) = 2
               /\ last.rules[1] # last.rules[2]
               /\ MatchingRules(last.transactions[j], last.rules) = {1, 2})
              => AssignedCategory(last.transactions[j], Swapped(last.rules))
                     # AssignedCategory(last.transactions[j], last.rules)

\* C20: rule application assigns each transaction to the first rule of the
\* supplied order whose match_value is a case-insensitive substring of the field
\* named by match_field; a transaction that two rules match is assigned to the
\* other rule when the two rules are supplied in the opposite order, and is
\* categorized differently exactly when the two rules name different categories.
Thm_C20 ==
    last.op = "_apply_rules" =>
        /\ FirstMatchWins
        /\ \A j \in 1..Len(last.transactions) :
              (/\ Len(last.rules) = 2
               /\ last.rules[1] # last.rules[2]
               /\ MatchingRules(last.transactions[j], last.rules) = {1, 2})
              => LET txn == last.transactions[j]
                     swapped == apply_rules(<<txn>>, Swapped(last.rules), 1, <<>>, <<>>)
                     given == apply_rules(<<txn>>, last.rules, 1, <<>>, <<>>)
                 IN  /\ given.rule_matched[1].rule = last.rules[1]
                     /\ swapped.rule_matched[1].rule = last.rules[2]
                     /\ (AssignedCategory(txn, Swapped(last.rules))
                             # AssignedCategory(txn, last.rules))
                        <=> (last.rules[1].category_id # last.rules[2].category_id)

\* A transaction whose payee "bA" both rules match ("a" to c1 first, "Ba" to c2
\* second) is assigned to the first rule, and to c2 in the opposite order.
Witness_C20 ==
    /\ last.op = "_apply_rules"
    /\ Len(last.rules) = 2
    /\ last.rules[1] = [match_field |-> "payee", match_value |-> <<"a">>,
                        category_id |-> "c1"]
    /\ last.rules[2] = [match_field |-> "payee", match_value |-> <<"B", "a">>,
                        category_id |-> "c2"]
    /\ Len(last.transactions) = 1
    /\ last.transactions[1].id = 1
    /\ MatchingRules(last.transactions[1], last.rules) = {1, 2}
    /\ last.rule_matched[1].rule.category_id = "c1"
    /\ AssignedCategory(last.transactions[1], Swapped(last.rules)) = "c2"

(***************************************************************************)
(* Rule application partitions its input                                   *)
(***************************************************************************)
\* The number of positions of the list that hold x.
Occurrences(list, x) == Cardinality({n \in 1..Len(list) : list[n] = x})

\* C21: rule application partitions the input: each input transaction appears in
\* exactly one of rule_matched and remaining, never in both and never in neither,
\* nothing else appears in either, and remaining holds exactly the transactions
\* that no rule matches.
Thm_C21 ==
    last.op = "_apply_rules" =>
        LET matched == [n \in 1..Len(last.rule_matched) |->
                            last.rule_matched[n].transaction]
            inputs == {last.transactions[j] : j \in 1..Len(last.transactions)}
        IN  /\ \A t \in inputs :
                  /\ Occurrences(matched, t) + Occurrences(last.remaining, t) = 1
                  /\ (Occurrences(last.remaining, t) = 1)
                         <=> (MatchingRules(t, last.rules) = {})
            /\ \A n \in 1..Len(matched) : matched[n] \in inputs
            /\ \A n \in 1..Len(last.remaining) : last.remaining[n] \in inputs

\* Two transactions under one rule on the memo: the one whose memo is "ab" is
\* matched, the one without memo is remaining.
Witness_C21 ==
    /\ last.op = "_apply_rules"
    /\ Len(last.transactions) = 2
    /\ Len(last.rules) = 1
    /\ Len(last.rule_matched) = 1
    /\ Len(last.remaining) = 1
    /\ last.rule_matched[1].transaction.id = 2
    /\ last.remaining[1].id = 1

(***************************************************************************)
(* Categorization of stored transactions                                   *)
(* (services/categorization_service.py, routers/categories.py,             *)
(*  routers/transactions.py)                                               *)
(***************************************************************************)
\* The frame of the handlers that write transactions and rules only.
CategorizationFrame ==
    /\ BudgetTablesUnchanged
    /\ UNCHANGED <<accounts, goals, goal_accounts, net_snapshots,
                   account_balance_history, simplefin_items,
                   simplefin_sync_jobs, in_flight>>

\* A list of the rows of a set, by descending id.
RECURSIVE RowsByIdDesc(_)
RowsByIdDesc(rows) ==
    IF rows = {} THEN <<>>
    ELSE LET top == CHOOSE r \in rows : \A x \in rows : x.id <= r.id
         IN  <<top>> \o RowsByIdDesc(rows \ {top})

\* Database.update_transaction_category: the rows after the update, which sets
\* category_id, subcategory_id and categorization_source of the row with the id.
update_transaction_category(rows, transaction_id, category_id, subcategory_id, categorization_source) ==
    {IF t.id = transaction_id
     THEN [t EXCEPT !.category_id = category_id,
                    !.subcategory_id = subcategory_id,
                    !.categorization_source = categorization_source]
     ELSE t : t \in rows}

\* Database.update_simplefin_transaction: the rows after the update, which sets
\* the given columns of the row with the id.
update_simplefin_transaction(rows, transaction_id, updates) ==
    {IF t.id = transaction_id
     THEN [f \in DOMAIN t |-> IF f \in DOMAIN updates THEN updates[f] ELSE t[f]]
     ELSE t : t \in rows}

\* Database.get_categorization_rules: the user's rules, most recent first.
get_categorization_rules(user_id) ==
    SelectSeq(categorization_rules, LAMBDA r : r.user_id = user_id)

\* categorize_transactions, the transactions to categorize: the ones of the
\* user among the given ids, or all of the user's, without the categorized
\* ones unless force is set.
TransactionsToCategorize(user_id, ids_given, transaction_ids, force) ==
    IF ids_given /\ transaction_ids # <<>>
    THEN LET present == SelectSeq(transaction_ids, LAMBDA id :
                 \E t \in transactions : t.id = id /\ t.user_id = user_id)
         IN  [n \in 1..Len(present) |->
                 CHOOSE t \in transactions : t.id = present[n]]
    ELSE LET all_txns == RowsByIdDesc({t \in transactions : t.user_id = user_id})
         IN  IF force THEN all_txns
             ELSE SelectSeq(all_txns, LAMBDA t : t.category_id = None)

\* Step 2 of categorize_transactions from match n on: each rule-matched
\* transaction gets the category and subcategory of its rule with source rule.
RECURSIVE ApplyRuleMatches(_, _, _)
ApplyRuleMatches(rows, rule_matched, n) ==
    IF n > Len(rule_matched) THEN rows
    ELSE ApplyRuleMatches(
             update_transaction_category(rows, rule_matched[n].transaction.id,
                 rule_matched[n].rule.category_id,
                 rule_matched[n].rule.subcategory_id, "rule"),
             rule_matched, n + 1)

\* Step 3 of categorize_transactions from entry n of the parsed response on. An
\* entry that is an object without transaction_id raises KeyError, which is
\* counted as failed; an entry that is no object raises TypeError, and the
\* handler's cat.get raises AttributeError, which ends the step.
RECURSIVE ApplyAiEntries(_, _, _)
ApplyAiEntries(rows, entries, n) ==
    IF n > Len(entries) THEN [rows |-> rows, raised |-> FALSE]
    ELSE LET cat == entries[n]
         IN  IF cat.kind = "string" THEN [rows |-> rows, raised |-> TRUE]
             ELSE IF ~cat.has_transaction_id
                  THEN ApplyAiEntries(rows, entries, n + 1)
             ELSE ApplyAiEntries(
                      update_transaction_category(rows, cat.transaction_id,
                          cat.category_id, cat.subcategory_id, "ai"),
                      entries, n + 1)

\* Step 3 of categorize_transactions: json.loads raises on an unparseable
\* response; nothing is called when remaining is empty.
AiStep(rows, remaining, response) ==
    IF remaining = <<>> THEN [rows |-> rows, raised |-> FALSE]
    ELSE IF ~response.parses THEN [rows |-> rows, raised |-> TRUE]
    ELSE ApplyAiEntries(rows, response.entries, 1)

\* POST /categories/ai/categorize -> categorize_transactions; response is what
\* the AI model answers when it is called.
categorize_transactions(user, ids_given, transaction_ids, force, response) ==
    /\ CategorizationFrame
    /\ UNCHANGED categorization_rules
    /\ LET txns == TransactionsToCategorize(user, ids_given, transaction_ids, force)
           applied == apply_rules(txns, get_categorization_rules(user), 1, <<>>, <<>>)
           after_rules == ApplyRuleMatches(transactions, applied.rule_matched, 1)
           ai == AiStep(after_rules, applied.remaining, response)
       IN  /\ transactions' = IF txns = <<>> THEN transactions ELSE ai.rows
           /\ last' = [op |-> "categorize_transactions", user |-> user,
                       status |-> IF txns # <<>> /\ ai.raised THEN 500 ELSE 200,
                       input_ids |-> {txns[n].id : n \in 1..Len(txns)},
                       rule_matched |-> {applied.rule_matched[n].transaction.id
                                           : n \in 1..Len(applied.rule_matched)},
                       remaining |-> {applied.remaining[n].id
                                        : n \in 1..Len(applied.remaining)},
                       after_rules |-> after_rules,
                       response |-> response]

\* POST /categories/rules
create_rule(user, rule) ==
    /\ CategorizationFrame
    /\ UNCHANGED transactions
    /\ Len(categorization_rules) < MaxRules
    /\ IF rule.match_field \notin {"payee", "description", "memo"}
       THEN /\ UNCHANGED categorization_rules
            /\ last' = [op |-> "create_rule", user |-> user, status |-> 400]
       ELSE /\ categorization_rules' =
                   <<rule @@ [user_id |-> user]>> \o categorization_rules
            /\ last' = [op |-> "create_rule", user |-> user, status |-> 201]

\* PATCH /categories/transactions/{transaction_id}/categorize
manual_categorize_transaction(user, transaction_id, category_id, subcategory_id, want_rule) ==
    /\ CategorizationFrame
    /\ LET found == {t \in transactions : t.id = transaction_id}
           txn == CHOOSE t \in found : TRUE
           request == [op |-> "manual_categorize_transaction", user |-> user,
                       transaction_id |-> transaction_id,
                       category_id |-> category_id,
                       subcategory_id |-> subcategory_id]
       IN  IF found = {}
           THEN /\ last' = request @@ [status |-> 404]
                /\ UNCHANGED <<transactions, categorization_rules>>
           ELSE IF txn.user_id # user
           THEN /\ last' = request @@ [status |-> 403]
                /\ UNCHANGED <<transactions, categorization_rules>>
           ELSE /\ transactions' =
                       update_transaction_category(transactions, transaction_id,
                           category_id, subcategory_id, "manual")
                /\ IF want_rule /\ category_id # None /\ ~txn.payee.is_none
                      /\ txn.payee.value # <<>>
                   THEN /\ Len(categorization_rules) < MaxRules
                        /\ categorization_rules' =
                               <<[user_id |-> user, match_field |-> "payee",
                                  match_value |-> txn.payee.value,
                                  category_id |-> category_id,
                                  subcategory_id |-> subcategory_id]>>
                               \o categorization_rules
                   ELSE UNCHANGED categorization_rules
                /\ last' = request @@ [status |-> 200]

\* PATCH /transactions/{transaction_id}; None stands for a field that the
\* request does not set.
update_transaction(user, transaction_id, category_id, subcategory_id) ==
    /\ CategorizationFrame
    /\ UNCHANGED categorization_rules
    /\ LET found == {t \in transactions : t.id = transaction_id}
           txn == CHOOSE t \in found : TRUE
           request == [op |-> "update_transaction", user |-> user,
                       transaction_id |-> transaction_id,
                       category_id |-> category_id,
                       subcategory_id |-> subcategory_id]
           update_data ==
               [f \in ({"category_id"} \cap (IF category_id # None
                                             THEN {"category_id"} ELSE {}))
                      \cup ({"subcategory_id"} \cap (IF subcategory_id # None
                                                     THEN {"subcategory_id"}
                                                     ELSE {}))
                  |-> IF f = "category_id" THEN category_id ELSE subcategory_id]
       IN  IF found = {}
           THEN /\ last' = request @@ [status |-> 404]
                /\ UNCHANGED transactions
           ELSE IF txn.user_id # user
           THEN /\ last' = request @@ [status |-> 403]
                /\ UNCHANGED transactions
           ELSE /\ transactions' =
                       IF DOMAIN update_data = {} THEN transactions
                       ELSE update_simplefin_transaction(transactions,
                                transaction_id, update_data)
                /\ last' = request @@ [status |-> 200]

(***************************************************************************)
(* Specification of the categorization pipeline and manual categorization  *)
(***************************************************************************)
\* Synced transactions of u1 without categorization: payee "bA", payee "bb".
CategorizeTxnInputs ==
    {Txn("u1", "a1", -75000, 22, None, None)
        @@ [payee |-> Text(py), memo |-> NoText,
            categorization_source |-> "uncategorized"]
       : py \in {<<"b", "A">>, <<"b", "b">>}}

\* The rules created through the rules endpoint: payee contains "a" -> c1, and a
\* rule on a field that is no transaction field.
CreateRuleInputs ==
    {[match_field |-> "payee", match_value |-> <<"a">>, category_id |-> "c1",
      subcategory_id |-> None],
     [match_field |-> "amount", match_value |-> <<"a">>, category_id |-> "c1",
      subcategory_id |-> None]}

\* An entry of a parsed AI response: an object naming a transaction, an object
\* without transaction_id, a string.
AiObject(transaction_id) ==
    [kind |-> "object", has_transaction_id |-> TRUE,
     transaction_id |-> transaction_id, category_id |-> "c2",
     subcategory_id |-> None]

AiObjectWithoutId ==
    [kind |-> "object", has_transaction_id |-> FALSE, transaction_id |-> 0,
     category_id |-> "c2", subcategory_id |-> None]

AiString ==
    [kind |-> "string", has_transaction_id |-> FALSE, transaction_id |-> 0,
     category_id |-> None, subcategory_id |-> None]

\* The answers of the AI model: text that is no JSON, and JSON arrays.
AiResponses ==
    {[parses |-> FALSE, entries |-> <<>>]}
    \cup {[parses |-> TRUE, entries |-> e] :
            e \in {<<>>, <<AiObject(1)>>, <<AiObject(2)>>, <<AiString>>,
                   <<AiObject(2), AiString>>, <<AiObject(2), AiObject(1)>>,
                   <<AiObjectWithoutId, AiObject(2)>>}}

\* A response is well-formed when it parses to an array of objects that each
\* name a transaction.
WellFormed(response) ==
    /\ response.parses
    /\ \A n \in 1..Len(response.entries) :
          /\ response.entries[n].kind = "object"
          /\ response.entries[n].has_transaction_id

NextCategorize ==
    \/ \E t \in CategorizeTxnInputs : Idle /\ upsert_simplefin_transaction(t)
    \/ \E r \in CreateRuleInputs : Idle /\ create_rule("u1", r)
    \/ \E g \in BOOLEAN, f \in BOOLEAN, r \in AiResponses :
           Idle /\ categorize_transactions("u1", g, IF g THEN <<1>> ELSE <<>>, f, r)
    \/ \E u \in Users, t \in TxnIds, w \in BOOLEAN :
           Idle /\ manual_categorize_transaction(u, t, "c2", None, w)
    \/ \E u \in Users, t \in TxnIds, c \in {None, "c2"} :
           Idle /\ update_transaction(u, t, c, None)
    \/ send_response

SpecCategorize == Init /\ [][NextCategorize]_vars

\* C22 as stated: when the AI model is called and its response is malformed or
\* unparseable, the AI step fails as a whole and the stored transactions are the
\* ones right after rule application: every rule-matched transaction has the
\* category of its rule with source rule, and no remaining transaction has its
\* categorization changed.
CE_C22 ==
    (/\ last.op = "categorize_transactions"
     /\ last.remaining # {}
     /\ ~WellFormed(last.response))
    => /\ last.status = 500
       /\ transactions = last.after_rules
       /\ \A t \in transactions :
             t.id \in last.rule_matched => t.categorization_source = "rule"

\* C23 as stated: a manual categorization of a transaction by its owner, through
\* the manual categorize endpoint or through the transaction update endpoint
\* that sets category_id or subcategory_id, leaves the transaction with
\* categorization source manual.
CE_C23 ==
    (/\ last.op \in {"manual_categorize_transaction", "update_transaction"}
     /\ last.status = 200
     /\ \/ last.op = "manual_categorize_transaction"
        \/ last.category_id # None
        \/ last.subcategory_id # None)
    => TxnById(last.transaction_id).categorization_source = "manual"

\* The manual categorize endpoint alone leaves the transaction with source manual.
ManualEndpointSetsManual ==
    (last.op = "manual_categorize_transaction" /\ last.status = 200)
    => TxnById(last.transaction_id).categorization_source = "manual"

\* C27 as stated: within one categorization run the AI step writes only to
\* transactions of remaining: every other stored transaction, rule-matched in the
\* run or outside its input, is as it was right after rule application.
CE_C27 ==
    last.op = "categorize_transactions" =>
        \A t \in transactions : t.id \notin last.remaining => t \in last.after_rules

(***************************************************************************)
(* Resolution without override and without default                        *)
(***************************************************************************)
\* C24: a summary request for a (user, month) without month override while the
\* user has no default budget is answered 404 without a summary and resolves no
\* budget, whatever other budgets the user or other users have.
Thm_C24 ==
    (/\ last.op = "get_budget_summary"
     /\ ValidMonth(last.month)
     /\ \A m \in budget_months :
           ~(m.user_id = last.user /\ m.month = MonthDate(last.month))
     /\ \A b \in budgets : ~(b.user_id = last.user /\ b.is_default))
    => /\ last.status = 404
       /\ ~last.found
       /\ "summary" \notin DOMAIN last

\* Such a request while the user has a budget that is not the default and
\* another user has a default budget.
Witness_C24 ==
    /\ last.op = "get_budget_summary"
    /\ last.status = 404
    /\ \A m \in budget_months :
          ~(m.user_id = last.user /\ m.month = MonthDate(last.month))
    /\ \E b \in budgets : b.user_id = last.user /\ ~b.is_default
    /\ \E b \in budgets : b.user_id # last.user /\ b.is_default

(***************************************************************************)
(* Concurrent default-setting writes (database.py create_budget,           *)
(* update_budget): each store call is one step                             *)
(***************************************************************************)
\* The frame of the steps that write budgets and in_flight only.
DefaultWriteFrame ==
    UNCHANGED <<budget_months, budget_line_items, budget_accounts, transactions,
                accounts, goals, goal_accounts, net_snapshots,
                account_balance_history, categorization_rules, simplefin_items,
                simplefin_sync_jobs>>

\* The numbers of the requests in flight.
InFlightIds == {r.req : r \in in_flight}

\* Database.create_budget with is_default set, first store call: unset the
\* user's defaults.
create_budget_clear(user) ==
    /\ HasFreshId(InFlightIds, MaxInFlight)
    /\ budgets' = ClearDefaults(budgets, user)
    /\ in_flight' = in_flight \cup
           {[req |-> FreshId(InFlightIds, MaxInFlight), op |-> "create_budget",
             user |-> user, budget_id |-> 0]}
    /\ UNCHANGED last
    /\ DefaultWriteFrame

\* Database.create_budget, second store call: insert the budget; the request is
\* answered.
create_budget_insert(r) ==
    /\ r.op = "create_budget"
    /\ HasFreshId(Ids(budgets), MaxBudgets)
    /\ LET id == FreshId(Ids(budgets), MaxBudgets)
       IN  /\ budgets' = budgets \cup
                  {[id |-> id, user_id |-> r.user, is_default |-> TRUE]}
           /\ last' = [op |-> "create_budget", user |-> r.user, budget_id |-> id,
                       is_default |-> TRUE, status |-> 201]
    /\ in_flight' = in_flight \ {r}
    /\ DefaultWriteFrame

\* POST /budgets/{budget_id}/set-default up to the first write of
\* Database.update_budget: the ownership check, then unset the defaults of the
\* budget's user.
set_default_clear(user, budget_id) ==
    /\ HasFreshId(InFlightIds, MaxInFlight)
    /\ LET access == BudgetAccess(user, budget_id)
       IN  IF access # 200
           THEN /\ last' = [op |-> "set_default_budget", user |-> user,
                            budget_id |-> budget_id, update |-> "true",
                            status |-> access]
                /\ UNCHANGED <<budgets, in_flight>>
           ELSE /\ budgets' = ClearDefaults(budgets, user)
                /\ in_flight' = in_flight \cup
                       {[req |-> FreshId(InFlightIds, MaxInFlight),
                         op |-> "set_default_budget", user |-> user,
                         budget_id |-> budget_id]}
                /\ UNCHANGED last
    /\ DefaultWriteFrame

\* Database.update_budget, second store call: update the row with the id; the
\* request is answered.
set_default_update(r) ==
    /\ r.op = "set_default_budget"
    /\ budgets' = {IF b.id = r.budget_id THEN [b EXCEPT !.is_default = TRUE]
                   ELSE b : b \in budgets}
    /\ last' = [op |-> "set_default_budget", user |-> r.user,
                budget_id |-> r.budget_id, update |-> "true", status |-> 200]
    /\ in_flight' = in_flight \ {r}
    /\ DefaultWriteFrame

\* The response of a completed request is returned; requests in flight go on.
send_response_concurrent ==
    /\ last # NoRequest
    /\ last' = NoRequest
    /\ UNCHANGED <<budgets, in_flight>>
    /\ DefaultWriteFrame

NextDefaults ==
    \/ \E u \in Users : create_budget_clear(u)
    \/ \E r \in in_flight : create_budget_insert(r)
    \/ \E u \in Users, b \in BudgetIds : set_default_clear(u, b)
    \/ \E r \in in_flight : set_default_update(r)
    \/ send_response_concurrent

SpecDefaults == Init /\ [][NextDefaults]_vars

\* C25 as stated: once the default-setting writes that ran concurrently have
\* completed, no user has two budgets with is_default = true.
CE_C25 ==
    in_flight = {} => \A u \in Users : Cardinality(DefaultsOf(u)) <= 1

(***************************************************************************)
(* Rejected goal requests                                                  *)
(***************************************************************************)
\* C26 as stated: a create_goal or update_goal request rejected as invalid input
\* (non-positive target, allocation outside its range, or a linked account whose
\* balance sign does not match the goal type) leaves the stored goals and
\* goal-accounts exactly as they were before the request.
CE_C26 ==
    [][(/\ last'.op \in {"create_goal", "update_goal"}
        /\ last'.status = 422
        /\ last'.detail \in {"validation", "balance_sign"})
       => (goals' = goals /\ goal_accounts' = goal_accounts)]_vars

\* A rejected create_goal alone leaves goals and goal-accounts as they were.
RejectedCreateChangesNothing ==
    [][(last'.op = "create_goal" /\ last'.status = 422)
       => (goals' = goals /\ goal_accounts' = goal_accounts)]_vars

(***************************************************************************)
(* Daily SimpleFin sync (cron.py)                                          *)
(***************************************************************************)
\* Time is counted in half days; 86400 seconds are two of them.
DayLength == 2

\* The ways the processing of one item can go: without an exception, or with
\* one raised before the item's sync job is created (parsing last_synced_at,
\* create_simplefin_sync_job), after it (decrypt_token, fetch_accounts), or
\* after the job was marked completed (update_simplefin_item).
ItemOutcomes == {"ok", "error_before_job", "error_after_job", "error_after_completed"}

\* Database.create_simplefin_sync_job: the table with the new row.
create_simplefin_sync_job(jobs, user_id, simplefin_item_id) ==
    jobs \cup {[id |-> FreshId(Ids(jobs), MaxJobs), user_id |-> user_id,
                simplefin_item_id |-> simplefin_item_id, status |-> "running"]}

\* Database.update_simplefin_sync_job: the table with the status of the job set.
update_simplefin_sync_job(jobs, job_id, status) ==
    {IF j.id = job_id THEN [j EXCEPT !.status = status] ELSE j : j \in jobs}

\* Variant that updates no row.
update_simplefin_sync_job_Nothing(jobs, job_id, status) == jobs

\* Database.update_simplefin_item with last_synced_at = now().
update_simplefin_item(items, item_id, now) ==
    [items EXCEPT ![item_id].last_synced_at = <<now>>]

\* Database.upsert_simplefin_accounts for the accounts parsed from the data
\* fetched for an item: at most the item's account, with its balance.
upsert_simplefin_accounts(accts, account_id, fetched) ==
    IF fetched.balance = <<>> THEN accts
    ELSE [accts EXCEPT ![account_id].balance = fetched.balance[1]]

\* Database.upsert_simplefin_transactions for the transactions parsed from the
\* data fetched: those of accounts that were upserted, as new rows.
upsert_simplefin_transactions(rows, fetched) ==
    IF fetched.balance = <<>> \/ fetched.transactions = <<>> THEN rows
    ELSE rows \cup {[id |-> FreshId(Ids(rows), MaxTxns)] @@ fetched.transactions[1]}

\* The except branch of the loop body: the job named by the local variable
\* sync_job, if the variable is bound, is marked failed.
MarkFailed(st) ==
    IF st.sync_job = <<>> THEN st.jobs
    ELSE update_simplefin_sync_job(st.jobs, st.sync_job[1], "failed")

\* One iteration of the loop over the active items. st holds the tables, the
\* local variable sync_job (<<>> while unbound) and the log of the run.
SyncItem(st, item_id, item, outcome, fetched, now) ==
    IF outcome = "error_before_job"
    THEN [st EXCEPT !.jobs = MarkFailed(st),
                    !.log = Append(@, [item |-> item_id, outcome |-> "error",
                                       job |-> <<>>])]
    ELSE IF item.last_synced_at # <<>> /\ now - item.last_synced_at[1] < DayLength
    THEN [st EXCEPT !.log = Append(@, [item |-> item_id, outcome |-> "skipped",
                                       job |-> <<>>])]
    ELSE
    LET job_id == FreshId(Ids(st.jobs), MaxJobs)
        created == [st EXCEPT
                      !.jobs = create_simplefin_sync_job(@, item.user_id, item_id),
                      !.sync_job = <<job_id>>]
        stored == [created EXCEPT
                      !.accounts = upsert_simplefin_accounts(@, item.account_id, fetched),
                      !.transactions = upsert_simplefin_transactions(@, fetched),
                      !.jobs = update_simplefin_sync_job(@, job_id, "completed")]
    IN  IF outcome = "error_after_job"
        THEN [created EXCEPT
                 !.jobs = MarkFailed(created),
                 !.log = Append(@, [item |-> item_id, outcome |-> "error",
                                    job |-> <<job_id>>])]
        ELSE IF outcome = "error_after_completed"
        THEN [stored EXCEPT
                 !.jobs = MarkFailed(stored),
                 !.log = Append(@, [item |-> item_id, outcome |-> "error",
                                    job |-> <<job_id>>])]
        ELSE [stored EXCEPT
                 !.items = update_simplefin_item(@, item_id, now),
                 !.log = Append(@, [item |-> item_id, outcome |-> "synced",
                                    job |-> <<job_id>>])]

RECURSIVE SyncLoop(_, _, _, _, _, _, _)
\* for item in active_items, from position k of the list on
SyncLoop(st, active_items, rows, outcomes, fetched, now, k) ==
    IF k > Len(active_items) THEN st
    ELSE LET i == active_items[k]
         IN  SyncLoop(SyncItem(st, i, rows[i], outcomes[i], fetched[i], now),
                      active_items, rows, outcomes, fetched, now, k + 1)

\* The number of rows the loop may insert into simplefin_transactions.
FetchedTransactions(fetched) ==
    Cardinality({i \in ItemIds : fetched[i].transactions # <<>>})

\* One run of sync_simplefin_transactions: active_items is the list returned
\* by get_active_simplefin_items, outcomes and fetched are what happens to and
\* what SimpleFin returns for each item, now is the clock.
sync_simplefin_transactions(active_items, outcomes, fetched, now) ==
    /\ \A i \in ItemIds : simplefin_items[i].last_synced_at # <<>>
                             => simplefin_items[i].last_synced_at[1] <= now
    /\ Cardinality(simplefin_sync_jobs) + Len(active_items) <= MaxJobs
    /\ Cardinality(transactions) + FetchedTransactions(fetched) <= MaxTxns
    /\ LET st == SyncLoop([jobs |-> simplefin_sync_jobs, items |-> simplefin_items,
                           accounts |-> accounts, transactions |-> transactions,
                           sync_job |-> <<>>, log |-> <<>>],
                          active_items, simplefin_items, outcomes, fetched, now, 1)
       IN  /\ simplefin_sync_jobs' = st.jobs
           /\ simplefin_items' = st.items
           /\ accounts' = st.accounts
           /\ transactions' = st.transactions
           /\ last' = [op |-> "sync_simplefin_transactions", status |-> 200,
                       now |-> now, log |-> st.log]
    /\ UNCHANGED <<budgets, budget_months, budget_line_items, budget_accounts,
                   goals, goal_accounts, net_snapshots, account_balance_history,
                   categorization_rules, in_flight>>

(***************************************************************************)
(* Specification: runs of the daily sync over two active items             *)
(***************************************************************************)
\* The orders in which get_active_simplefin_items can return the items.
ActiveItemLists ==
    {s \in [1..Cardinality(ItemIds) -> ItemIds] : \A i, j \in DOMAIN s : s[i] = s[j] => i = j}

\* What SimpleFin returns for an item: no account, or the account with a
\* balance and one new transaction.
FetchedInputs(i) ==
    {[balance |-> <<>>, transactions |-> <<>>],
     [balance |-> <<1500000>>,
      transactions |-> <<Txn(ItemOwner[i], ItemAccount[i], -75000, 22, None, None)>>]}

NextCron ==
    \/ \E active_items \in ActiveItemLists, outcomes \in [ItemIds -> ItemOutcomes],
          now \in 0..MaxClock :
         \E f1 \in FetchedInputs("i1"), f2 \in FetchedInputs("i2") :
            Idle /\ sync_simplefin_transactions(
                        active_items, outcomes,
                        [i \in ItemIds |-> IF i = "i1" THEN f1 ELSE f2], now)
    \/ send_response

SpecCron == Init /\ [][NextCron]_vars

\* C30 as stated: in one run of the sync, an error raised while processing an
\* item changes at most that item's own job; the job created in the run for an
\* item that was synced without error is still completed when the run ends.
CE_C30 ==
    last.op = "sync_simplefin_transactions" =>
        \A k \in DOMAIN last.log :
            last.log[k].outcome = "synced" =>
                \E j \in simplefin_sync_jobs :
                    /\ j.id = last.log[k].job[1]
                    /\ j.simplefin_item_id = last.log[k].item
                    /\ j.status = "completed"

\* The jobs of earlier runs are not touched by a run.
EarlierRunsKeepTheirJobs ==
    [][last'.op = "sync_simplefin_transactions"
       => \A j \in simplefin_sync_jobs : j \in simplefin_sync_jobs']_vars

\* An error after the item's own job was created marks that job failed.
OwnJobMarkedFailed ==
    last.op = "sync_simplefin_transactions" =>
        \A k \in DOMAIN last.log :
            (last.log[k].outcome = "error" /\ last.log[k].job # <<>>) =>
                \E j \in simplefin_sync_jobs :
                    j.id = last.log[k].job[1] /\ j.status = "failed"

====
